---- MODULE Spec2Model ----
(***************************************************************************)
(* Workflow engine of the content production system: the stage state       *)
(* machine (core/orchestrator.py), the workflow operations built on it     *)
(* (api/routes/workflow.py) and the version manager                        *)
(* (core/models/project_version.py).                                       *)
(*                                                                         *)
(* One project (one workflow id).  `state' is the in-memory ProjectState,  *)
(* `disk' the persisted stage artifacts, `versions' the snapshot           *)
(* directories keyed by their timestamp-derived id, `now' the wall clock   *)
(* in seconds.  A Generator call is an environment choice among the        *)
(* outcomes the modules can produce: a result, a request for more input,   *)
(* a failure result, or an exception.                                      *)
(***************************************************************************)
EXTENDS Integers, Sequences, FiniteSets, TLC

VARIABLES state, active, disk, versions, now, pc, obs, allocated, cycles, answered, manager

vars == <<state, active, disk, versions, now, pc, obs, allocated, cycles, answered, manager>>

----------------------------------------------------------------------------
(* Bounds of the model *)

MaxTime == 3
MaxVersionNumber == 2
MaxContent == 1
NumFields == 2
MaxChannels == 1
MaxText == 5

(* Program constants *)

max_clarifications == 3
alternatives_count == 3
max_iterations == 10

(* the passes of a loop without a counter of its own that are followed:   *)
(* one more than max_iterations                                            *)
MaxSteps == 11

(* the longest id list of a reorder request *)
MaxReorder == 2

(* None for values that are strings; Nil and Some(x) for the optional     *)
(* values of other types                                                   *)
None == "none"

Nil == <<>>

Some(x) == <<x>>

stage_order == <<"intent", "research", "core_design", "core_production", "extension", "completed">>

Stages == {stage_order[i] : i \in 1..Len(stage_order)}

CallbackTokens == {"intent_input", "intent_clarification", "confirm_intent", "confirm_research", "scheme_selection", "confirm_outline", "field_clarification", "add_channel"}

Contents == 1..MaxContent

(* the values a caller can edit an artifact to; 0 is a text no module      *)
(* produced                                                                *)
Edited == 0..MaxContent

(* list.index(x): 0-based position of a stage in stage_order *)
StageIndex(st) == (CHOOSE i \in 1..Len(stage_order) : stage_order[i] = st) - 1

(* Answers a caller can give: the empty answer, a number, and the         *)
(* sentinel that ends the extension stage, which is not a number.          *)
Answers == {"", "1", "done"}

Absent == "absent"

IsNumeric(a) == a \in {"1", "7"}

ToInt(a) == IF a = "1" THEN 1 ELSE 7

Truthy(a) == a \notin {None, Absent, ""}

(* Outcomes of one Generator-backed module call *)
Outcomes == {"ok", "need_input", "fail", "raise"}

----------------------------------------------------------------------------
(* Field schema in use: NumFields definitions.  The first field declares a *)
(* clarification prompt; every later field depends on its predecessor.     *)

FieldName(i) == <<"name", i>>

FieldDefinition(i) == [name |-> FieldName(i), clarification_prompt |-> (i = 1), depends_on |-> IF i > 1 THEN <<FieldName(i - 1)>> ELSE <<>>]

get_ordered_fields == [i \in 1..NumFields |-> FieldDefinition(i)]

(* FieldSchema.get_field: first definition with that name, or None *)
schema_get_field(name) == IF \E i \in 1..NumFields : FieldName(i) = name THEN Some(FieldDefinition(CHOOSE i \in 1..NumFields : FieldName(i) = name)) ELSE Nil

ContentField(id, name) == [id |-> id, name |-> name, status |-> "pending", content |-> Nil, clarification_answer |-> None, context_stale |-> FALSE]

(* the flat field list built from the schema: id = field_def.id *)
FlatFields == [i \in 1..NumFields |-> ContentField(<<"field", i>>, FieldName(i))]

(* the default section built on scheme selection: id = field_{name}_{i} *)
DefaultSection == [id |-> "section_default", fields |-> [i \in 1..NumFields |-> ContentField(<<"section_field", i>>, FieldName(i))]]

----------------------------------------------------------------------------
(* ContentCore *)

RECURSIVE Flatten(_)
Flatten(sections) == IF sections = <<>> THEN <<>> ELSE Head(sections).fields \o Flatten(Tail(sections))

(* ContentCore.get_all_fields *)
get_all_fields(core) == IF core.sections # <<>> THEN Flatten(core.sections) ELSE core.fields

(* A field object is addressed by its position: <<k, i>> is field i of     *)
(* section k, <<0, i>> is entry i of the flat list, <<0, 0>> is no field.  *)
SectionPositions(core) == UNION {{<<k, i>> : i \in 1..Len(core.sections[k].fields)} : k \in 1..Len(core.sections)}

Matches(core, key) == {p \in SectionPositions(core) : core.sections[p[1]].fields[p[2]].name = key \/ core.sections[p[1]].fields[p[2]].id = key}

FirstPos(ps) == CHOOSE p \in ps : \A q \in ps : p[1] < q[1] \/ (p[1] = q[1] /\ p[2] <= q[2])

FlatMatches(core, key) == {i \in 1..Len(core.fields) : core.fields[i].name = key}

FirstIdx(S) == CHOOSE i \in S : \A j \in S : i <= j

(* get_field that knows a field by its name only, as before fields had ids *)
get_field_pos_by_name(core, key) ==
    LET named == {p \in SectionPositions(core) : core.sections[p[1]].fields[p[2]].name = key}
    IN IF named # {} THEN FirstPos(named)
       ELSE IF FlatMatches(core, key) # {} THEN <<0, FirstIdx(FlatMatches(core, key))>>
       ELSE <<0, 0>>

(* ContentCore.get_field: position of the field, sections first *)
get_field_pos(core, key) ==
    IF Matches(core, key) # {} THEN FirstPos(Matches(core, key))
    ELSE IF FlatMatches(core, key) # {} THEN <<0, FirstIdx(FlatMatches(core, key))>>
    ELSE <<0, 0>>

FieldAt(core, p) == IF p[1] = 0 THEN core.fields[p[2]] ELSE core.sections[p[1]].fields[p[2]]

(* assignment to one attribute of the field object at position p *)
SetField(core, p, f) ==
    IF p[1] = 0 THEN [core EXCEPT !.fields[p[2]] = f]
    ELSE [core EXCEPT !.sections[p[1]].fields[p[2]] = f]

(* position, in get_all_fields order, as a <<section, index>> position *)
RECURSIVE AllPositions(_, _)
AllPositions(core, k) ==
    IF core.sections = <<>> THEN [i \in 1..Len(core.fields) |-> <<0, i>>]
    ELSE IF k > Len(core.sections) THEN <<>>
    ELSE [i \in 1..Len(core.sections[k].fields) |-> <<k, i>>] \o AllPositions(core, k + 1)

positions(core) == AllPositions(core, 1)

Generating(core) == {i \in 1..Len(get_all_fields(core)) : get_all_fields(core)[i].status = "generating"}

Pending(core) == {i \in 1..Len(get_all_fields(core)) : get_all_fields(core)[i].status = "pending"}

(* the ContentCore returned by ContentCoreProducer._generate_schemes *)
NewContentCore == [design_schemes |-> alternatives_count, selected_scheme_index |-> Nil, status |-> "scheme_selection", outline_confirmed |-> FALSE, sections |-> <<>>, fields |-> FlatFields]

NewContentExtension == [status |-> "pending", channels |-> <<>>]

----------------------------------------------------------------------------
(* ProjectState as created by Orchestrator.create_project_state *)

ProjectState == [current_stage |-> "intent", project_status |-> "intent", waiting_for_input |-> FALSE, input_prompt |-> None, input_callback |-> None, intent |-> Nil, consumer_research |-> Nil, content_core |-> Nil, content_extension |-> Nil, current_field |-> Nil, raw_intent_input |-> None, clarification_history |-> Nil, clarification_count |-> 0]

(* What a handler returns: the state it leaves, whether it raised, the     *)
(* module calls it made, whether the chosen outcomes are ones the called   *)
(* modules can produce (unused outcomes are fixed to "ok"), and the        *)
(* dependency context of the prompt when it called the field producer.     *)
(* target is the position of the field a regenerate request marked before  *)
(* the advance, <<0, 0>> for the other operations.  messages are the roles *)
(* of the messages appended to the conversation log of the project.        *)
Ret(s, exc, calls, valid) == [s |-> s, exc |-> exc, calls |-> calls, valid |-> valid, context |-> <<>>, target |-> <<0, 0>>, messages |-> <<>>, index |-> <<>>, stage |-> "none", version_id |-> 0, downstream |-> <<>>, channel_name |-> None, clarification |-> <<>>]

NoCall(s, g) == Ret(s, FALSE, <<>>, g.first = "ok" /\ g.second = "ok" /\ g.val = 1)

Suspend(s, callback, prompt) == [s EXCEPT !.waiting_for_input = TRUE, !.input_prompt = prompt, !.input_callback = callback]

(* IntentReady that moves on to the research stage *)
IntentReady_advancing(s, g) == [Suspend([s EXCEPT !.intent = Some([goal |-> g.val]), !.raw_intent_input = None, !.clarification_history = Nil, !.clarification_count = 0], "confirm_intent", "intent_ready") EXCEPT !.current_stage = "research", !.project_status = "research"]

(* IntentReady that does not wait for the confirmation *)
IntentReady_unconfirmed(s, g) == [s EXCEPT !.intent = Some([goal |-> g.val]), !.raw_intent_input = None, !.clarification_history = Nil, !.clarification_count = 0]

(* the assignments made when an intent extraction succeeded *)
IntentReady(s, g) == Suspend([s EXCEPT !.intent = Some([goal |-> g.val]), !.raw_intent_input = None, !.clarification_history = Nil, !.clarification_count = 0], "confirm_intent", "intent_ready")

(* LimitReached that allows one more clarification *)
LimitReached_late(s) == s.clarification_count > max_clarifications

(* the test that routes a clarification request to the forced extraction *)
LimitReached(s) == s.clarification_count >= max_clarifications

(* Orchestrator._run_intent_stage; raw is the raw_input entry of its input *)
_run_intent_stage(s, raw, g) ==
    IF ~Truthy(raw) THEN NoCall(Suspend(s, "intent_input", "describe"), g)
    ELSE LET s1 == [s EXCEPT !.raw_intent_input = raw, !.clarification_history = IF @ = Nil THEN Some(0) ELSE @]
             one == g.second = "ok" /\ (g.first = "ok" \/ g.val = 1)
         IN CASE g.first = "raise" -> Ret(s1, TRUE, <<"analyzer">>, one)
              [] g.first = "fail" -> Ret(s1, FALSE, <<"analyzer">>, one)
              [] g.first = "ok" -> Ret(IntentReady(s1, g), FALSE, <<"analyzer">>, one)
              [] g.first = "need_input" ->
                    IF LimitReached(s1)
                    THEN CASE g.second = "raise" -> Ret(s1, TRUE, <<"analyzer", "analyzer_forced">>, g.val = 1)
                           [] g.second = "ok" -> Ret(IntentReady(s1, g), FALSE, <<"analyzer", "analyzer_forced">>, TRUE)
                           [] OTHER -> Ret(s1, FALSE, <<"analyzer", "analyzer_forced">>, g.val = 1)
                    ELSE Ret(Suspend([s1 EXCEPT !.clarification_count = @ + 1], "intent_clarification", "question"), FALSE, <<"analyzer">>, one)

(* Orchestrator._run_research_stage *)
_run_research_stage(s, g) ==
    LET one == g.second = "ok" /\ (g.first = "ok" \/ g.val = 1)
    IN CASE g.first = "raise" -> Ret(s, TRUE, <<"researcher">>, one)
         [] g.first = "fail" -> Ret(s, FALSE, <<"researcher">>, one)
         [] g.first = "ok" -> Ret(Suspend([s EXCEPT !.consumer_research = Some([summary |-> g.val])], "confirm_research", "research_ready"), FALSE, <<"researcher">>, one)
         [] OTHER -> Ret(s, FALSE, <<"researcher">>, FALSE)

(* _run_core_design_stage whose selection goes on to the production of    *)
(* the fields without a stop at the outline                                *)
_run_core_design_stage_producing(s, action, scheme_index, g) ==
    IF action = "generate_schemes"
    THEN LET one == g.second = "ok" /\ g.val = 1
         IN CASE g.first = "raise" -> Ret(s, TRUE, <<"schemes">>, one)
              [] g.first = "ok" -> Ret(Suspend([s EXCEPT !.content_core = Some(NewContentCore)], "scheme_selection", "select_scheme"), FALSE, <<"schemes">>, one)
              [] OTHER -> Ret(s, FALSE, <<"schemes">>, FALSE)
    ELSE IF s.content_core # Nil
         THEN LET core == [s.content_core[1] EXCEPT !.selected_scheme_index = Some(scheme_index), !.status = "field_production", !.sections = IF @ = <<>> THEN <<DefaultSection>> ELSE @]
              IN NoCall([s EXCEPT !.content_core = Some(core), !.current_stage = "core_production", !.project_status = "core_production"], g)
         ELSE NoCall(s, g)

(* Orchestrator._run_core_design_stage *)
_run_core_design_stage(s, action, scheme_index, g) ==
    IF action = "generate_schemes"
    THEN LET one == g.second = "ok" /\ g.val = 1
         IN CASE g.first = "raise" -> Ret(s, TRUE, <<"schemes">>, one)
              [] g.first = "ok" -> Ret(Suspend([s EXCEPT !.content_core = Some(NewContentCore)], "scheme_selection", "select_scheme"), FALSE, <<"schemes">>, one)
              [] OTHER -> Ret(s, FALSE, <<"schemes">>, FALSE)
    ELSE IF s.content_core # Nil
         THEN LET core == [s.content_core[1] EXCEPT !.selected_scheme_index = Some(scheme_index), !.status = "outline_editing", !.sections = IF @ = <<>> THEN <<DefaultSection>> ELSE @]
              IN NoCall(Suspend([s EXCEPT !.content_core = Some(core), !.current_stage = "core_production", !.project_status = "core_production"], "confirm_outline", "edit_outline"), g)
         ELSE NoCall(s, g)

(* ContentCoreProducer._produce_field, the dependency context it builds.   *)
(* An entry is the "## name / content" block of one field; source is the   *)
(* position of the field object the content was read from.                 *)
DepEntry(core, q) == [name |-> FieldAt(core, q).name, content |-> FieldAt(core, q).content, source |-> q]

(* 4.1: the fields named in depends_on that are found and hold content *)
explicit_deps(core, field_name) ==
    LET field_def == schema_get_field(field_name)
        depends_on == IF field_def = Nil THEN <<>> ELSE field_def[1].depends_on
        HasContent(dep_name) == IF get_field_pos(core, dep_name) = <<0, 0>> THEN FALSE ELSE FieldAt(core, get_field_pos(core, dep_name)).content # Nil
        found == SelectSeq(depends_on, HasContent)
    IN [i \in 1..Len(found) |-> [DepEntry(core, get_field_pos(core, found[i])) EXCEPT !.name = found[i]]]

(* 4.2: the position the section loop stops at: the first section field    *)
(* with the id of get_field(field_name), or <<0, 0>> for no section        *)
current_section(core, field_name) ==
    LET q == get_field_pos(core, field_name)
        hits == IF q = <<0, 0>> THEN {p \in SectionPositions(core) : FieldAt(core, p).name = field_name} ELSE {p \in SectionPositions(core) : FieldAt(core, p).id = FieldAt(core, q).id}
    IN IF hits = {} THEN <<0, 0>> ELSE FirstPos(hits)

(* 4.2: the completed fields before position <<k, order>> of section k,     *)
(* from index i on, each appended unless an entry has its name already     *)
RECURSIVE implicit_deps(_, _, _, _, _)
implicit_deps(core, k, i, order, dep_contents) ==
    IF i >= order THEN dep_contents
    ELSE LET field == FieldAt(core, <<k, i>>)
             named == \E j \in 1..Len(dep_contents) : dep_contents[j].name = field.name
         IN implicit_deps(core, k, i + 1, order, IF field.status = "completed" /\ field.content # Nil /\ ~named THEN Append(dep_contents, DepEntry(core, <<k, i>>)) ELSE dep_contents)

(* the dep_contents list of the prompt for the field named field_name *)
dep_contents(core, field_name) ==
    LET at == current_section(core, field_name)
    IN IF at = <<0, 0>> THEN explicit_deps(core, field_name) ELSE implicit_deps(core, at[1], 1, at[2], explicit_deps(core, field_name))

(* next_fields that takes the pending fields before the generating ones *)
next_fields_pending_first(core) == IF Pending(core) # {} THEN Pending(core) ELSE Generating(core)

(* next_fields that takes up the failed fields again with the pending ones *)
next_fields_with_failed(core) ==
    IF Generating(core) # {} THEN Generating(core)
    ELSE {i \in 1..Len(get_all_fields(core)) : get_all_fields(core)[i].status \in {"pending", "failed"}}

(* the list the production stage takes its next field from *)
next_fields(core) == IF Generating(core) # {} THEN Generating(core) ELSE Pending(core)

(* needs_clarification that asks again although the field holds an answer *)
needs_clarification_again(field_def, current_field) == IF field_def = Nil THEN FALSE ELSE field_def[1].clarification_prompt

(* the test of the clarification gate: the schema entry declares a prompt  *)
(* and the field holds no answer                                           *)
needs_clarification(field_def, current_field) == IF field_def = Nil THEN FALSE ELSE field_def[1].clarification_prompt /\ ~Truthy(current_field.clarification_answer)

(* clarification_needed that puts the question in the input prompt *)
clarification_needed_in_prompt(s) == Suspend(s, "field_clarification", "question")

(* the suspension on the clarification gate: no input prompt is set, the   *)
(* question is read from the schema by the caller                          *)
clarification_needed(s) == Suspend(s, "field_clarification", None)

(* Orchestrator._run_core_production_stage *)
_run_core_production_stage(s, g) ==
    IF s.content_core = Nil THEN NoCall(s, g)
    ELSE LET core0 == [s.content_core[1] EXCEPT !.fields = IF @ = <<>> THEN FlatFields ELSE @]
         IN IF next_fields(core0) = {}
            THEN NoCall([s EXCEPT !.content_core = Some([core0 EXCEPT !.status = "completed"]), !.current_stage = "extension", !.project_status = "extension"], g)
            ELSE LET p == positions(core0)[FirstIdx(next_fields(core0))]
                     current_field == FieldAt(core0, p)
                     s1 == [s EXCEPT !.content_core = Some(core0), !.current_field = current_field.id]
                     field_def == schema_get_field(current_field.name)
                 IN IF needs_clarification(field_def, current_field)
                    THEN NoCall(clarification_needed(s1), g)
                    ELSE LET core1 == SetField(core0, p, [current_field EXCEPT !.status = "generating"])
                             q == get_field_pos(core1, current_field.id)
                             core2 == IF q = <<0, 0>> THEN core1 ELSE SetField(core1, q, [FieldAt(core1, q) EXCEPT !.content = Some(g.val), !.status = "completed"])
                             context == dep_contents(core1, current_field.name)
                         IN CASE g.first = "raise" -> [Ret([s1 EXCEPT !.content_core = Some(core1)], TRUE, <<"producer">>, g.second = "ok" /\ g.val = 1) EXCEPT !.context = context]
                              [] g.first = "ok" -> [Ret([s1 EXCEPT !.content_core = Some(core2)], FALSE, <<"producer">>, g.second = "ok") EXCEPT !.context = context, !.messages = <<"system">>]
                              [] OTHER -> Ret(s1, FALSE, <<"producer">>, FALSE)

(* Orchestrator._run_extension_stage *)
_run_extension_stage(s, action, channel_name, g) ==
    LET result ==
        IF action = "setup"
        THEN NoCall(Suspend([s EXCEPT !.content_extension = IF @ = Nil THEN Some(NewContentExtension) ELSE @], "add_channel", "channel_name"), g)
        ELSE IF Truthy(channel_name) /\ channel_name # "done"
             THEN IF s.content_extension # Nil
                  THEN LET one == g.second = "ok" /\ (g.first = "ok" \/ g.val = 1)
                           added == [s EXCEPT !.content_extension[1].channels = Append(@, [channel_name |-> channel_name, status |-> "pending", content |-> Nil])]
                           n == Len(added.content_extension[1].channels)
                           k == FirstIdx({i \in 1..n : added.content_extension[1].channels[i].channel_name = channel_name})
                           produced == [added EXCEPT !.content_extension[1].channels[k].content = Some(g.val), !.content_extension[1].channels[k].status = "completed"]
                       IN CASE g.first = "raise" -> Ret(added, TRUE, <<"channel">>, one)
                            [] g.first = "ok" -> Ret(Suspend(produced, "add_channel", "next_channel"), FALSE, <<"channel">>, one)
                            [] OTHER -> Ret(added, FALSE, <<"channel">>, FALSE)
                  ELSE NoCall(s, g)
             ELSE NoCall([s EXCEPT !.content_extension = IF @ = Nil THEN Nil ELSE Some([@[1] EXCEPT !.status = "completed"]), !.current_stage = "completed", !.project_status = "completed"], g)
    IN [result EXCEPT !.channel_name = IF action = "add_channel" THEN channel_name ELSE None]

(* the callback _handle_input dispatches on *)
DispatchedCallback(s) ==
    IF s.input_callback = None /\ s.current_stage = "intent"
    THEN IF s.intent = Nil THEN "intent_input" ELSE "confirm_intent"
    ELSE s.input_callback

(* Orchestrator._handle_input; answer is the answer entry of the input, or *)
(* Absent when the input carries none                                      *)
_handle_input(s, answer, raw, g) ==
    LET callback == DispatchedCallback(s)
        s0 == [s EXCEPT !.waiting_for_input = FALSE, !.input_prompt = None, !.input_callback = None]
        ans == IF answer = Absent THEN "" ELSE answer
    IN CASE callback = "intent_input" -> IF Truthy(ans) THEN _run_intent_stage(s0, ans, g) ELSE _run_intent_stage(s0, raw, g)
         [] callback = "intent_clarification" ->
               LET s1 == [s0 EXCEPT !.clarification_history = IF @ = Nil THEN Some(1) ELSE Some(@[1] + 1)]
               IN _run_intent_stage(s1, IF Truthy(s1.raw_intent_input) THEN s1.raw_intent_input ELSE IF s1.intent # Nil THEN "raw" ELSE "", g)
         [] callback = "confirm_intent" -> _run_research_stage([s0 EXCEPT !.current_stage = "research", !.project_status = "research"], g)
         [] callback = "confirm_research" -> _run_core_design_stage([s0 EXCEPT !.current_stage = "core_design", !.project_status = "core_design"], "generate_schemes", 0, g)
         [] callback = "confirm_outline" ->
               _run_core_production_stage([s0 EXCEPT !.content_core = IF @ = Nil THEN Nil ELSE Some([@[1] EXCEPT !.outline_confirmed = TRUE, !.status = "field_production"])], g)
         [] callback = "field_clarification" ->
               LET q == IF s0.current_field # Nil /\ s0.content_core # Nil THEN get_field_pos(s0.content_core[1], s0.current_field) ELSE <<0, 0>>
                   s1 == IF q = <<0, 0>> THEN s0 ELSE [s0 EXCEPT !.content_core = Some(SetField(@[1], q, [FieldAt(@[1], q) EXCEPT !.clarification_answer = ans]))]
               IN [_run_core_production_stage(s1, g) EXCEPT !.clarification = Some([field_id |-> s0.current_field, answer |-> ans])]
         [] callback = "scheme_selection" ->
               IF answer = Absent THEN _run_core_design_stage(s0, "select_scheme", 0, g)
               ELSE IF IsNumeric(answer) THEN _run_core_design_stage(s0, "select_scheme", ToInt(answer) - 1, g)
               ELSE Ret(s0, TRUE, <<>>, g.first = "ok" /\ g.second = "ok" /\ g.val = 1)
         [] callback = "add_channel" -> _run_extension_stage(s0, "add_channel", ans, g)
         [] OTHER -> NoCall(s0, g)

(* Inputs of run_stage: the empty dict, an answer, a raw_input, or another *)
(* non-empty dict that carries neither (target_field_id, action).          *)
EmptyInput == [kind |-> "empty", answer |-> Absent, raw_input |-> ""]

AnswerInput(a) == [kind |-> "answer", answer |-> a, raw_input |-> ""]

RawInput == [kind |-> "raw_input", answer |-> Absent, raw_input |-> "raw"]

OtherInput == [kind |-> "other", answer |-> Absent, raw_input |-> ""]

(* Orchestrator.run_stage *)
run_stage(s, input, g) ==
    IF s.waiting_for_input /\ input.kind # "empty" THEN _handle_input(s, input.answer, input.raw_input, g)
    ELSE CASE s.current_stage = "intent" -> _run_intent_stage(s, input.raw_input, g)
           [] s.current_stage = "research" -> _run_research_stage(s, g)
           [] s.current_stage = "core_design" -> _run_core_design_stage(s, "generate_schemes", 0, g)
           [] s.current_stage = "core_production" -> _run_core_production_stage(s, g)
           [] s.current_stage = "extension" -> _run_extension_stage(s, "setup", "", g)
           [] OTHER -> NoCall(s, g)

(* the model stops adding channels after MaxChannels *)
Bounded(s) == IF s.content_extension = Nil THEN TRUE ELSE Len(s.content_extension[1].channels) <= MaxChannels

(* the outcomes an action chooses among *)
Gen == {g \in [first : Outcomes, second : Outcomes, val : Contents] : IF g.first = "ok" THEN g.second = "ok" ELSE IF g.first = "need_input" THEN g.second = "ok" \/ g.val = 1 ELSE g.second = "ok" /\ g.val = 1}

(* the outcomes recorded for a step that calls no module *)
NoGen == [first |-> "ok", second |-> "ok", val |-> 1]

----------------------------------------------------------------------------
(* Persistence: the stage files of the project directory *)

Files == {"intent", "consumer_research", "content_core", "content_extension"}

(* Orchestrator.save_state: project.yaml always, a stage file only when    *)
(* the state holds that stage's record                                     *)
save_state(s, d) == [project_status |-> s.project_status, files |-> [f \in Files |-> IF s[f] # Nil THEN s[f] ELSE d.files[f]]]

(* Orchestrator.load_state *)
load_state(d) ==
    LET core == d.files["content_core"]
        base == [ProjectState EXCEPT !.current_stage = d.project_status, !.project_status = d.project_status, !.intent = d.files["intent"], !.consumer_research = d.files["consumer_research"], !.content_core = IF core = Nil THEN Nil ELSE Some([core[1] EXCEPT !.fields = IF @ = <<>> THEN FlatFields ELSE @]), !.content_extension = d.files["content_extension"]]
    IN CASE d.project_status = "intent" -> Suspend(base, IF base.intent = Nil THEN "intent_input" ELSE "confirm_intent", IF base.intent = Nil THEN "describe" ELSE "intent_ready")
         [] d.project_status = "research" /\ base.consumer_research # Nil -> Suspend(base, "confirm_research", "research_ready")
         [] d.project_status = "core_design" /\ core # Nil /\ core[1].design_schemes > 0 /\ core[1].selected_scheme_index = Nil -> Suspend(base, "scheme_selection", "select_scheme")
         [] OTHER -> base

(* ensure_workflow_loaded that reads the files although the workflow is   *)
(* registered                                                              *)
ensure_workflow_loaded_from_file == load_state(disk)

(* ensure_workflow_loaded: the state an operation works on, and the files  *)
(* after the save made when a state had to be loaded                       *)
Loaded == IF active THEN state ELSE load_state(disk)

LoadedDisk == IF ~active /\ Loaded.content_core # Nil /\ Loaded.content_core[1].fields # <<>> THEN save_state(Loaded, disk) ELSE disk

----------------------------------------------------------------------------
(* Version manager *)

VersionIds == 1..MaxTime

stage_files(stage) ==
    CASE stage = "intent" -> "intent"
      [] stage = "research" -> "consumer_research"
      [] stage = "core_design" -> "content_core"
      [] stage = "core_production" -> "content_core"
      [] OTHER -> "content_extension"

list_versions(vs) == {id \in VersionIds : vs[id] # Nil}

Max(S) == CHOOSE n \in S : \A m \in S : m <= n

(* VersionManager.get_next_version_number *)
get_next_version_number(vs) == IF list_versions(vs) = {} THEN 1 ELSE Max({vs[id][1].version_number : id \in list_versions(vs)}) + 1

(* the id create_version derives from the clock, to the second *)
version_id(t) == t

(* the stage order of VersionManager.should_create_version *)
version_stage_order == <<"intent", "research", "core_design", "core_production", "extension">>

(* dict.get(key, default) on a dict given as a function *)
Get(dict, key, default) == IF key \in DOMAIN dict THEN dict[key] ELSE default

(* should_create_version that looks from the modified stage on *)
should_create_version_inclusive(modified_stage, downstream_stages) ==
    LET at == {i \in 1..Len(version_stage_order) : version_stage_order[i] = modified_stage}
    IN IF at = {} THEN FALSE
       ELSE \E i \in 1..Len(version_stage_order) : i >= Max(at) /\ Get(downstream_stages, version_stage_order[i], FALSE)

(* VersionManager.should_create_version *)
should_create_version(modified_stage, downstream_stages) ==
    LET at == {i \in 1..Len(version_stage_order) : version_stage_order[i] = modified_stage}
    IN IF at = {} THEN FALSE
       ELSE \E i \in 1..Len(version_stage_order) : i > Max(at) /\ Get(downstream_stages, version_stage_order[i], FALSE)

(* VersionManager.create_version: the directory named after the current    *)
(* second is created if missing, the files of the stages to back up are    *)
(* copied into it and version.yaml is written                              *)
create_version(vs, d, t, trigger_action, stages_to_backup) ==
    LET id == version_id(t)
        copied == {stage_files(st) : st \in stages_to_backup}
        old == IF vs[id] = Nil THEN [f \in Files |-> Nil] ELSE vs[id][1].files
        version == [version_number |-> get_next_version_number(vs), trigger_action |-> trigger_action, backed_up_stages |-> stages_to_backup, files |-> [f \in Files |-> IF f \in copied /\ d.files[f] # Nil THEN d.files[f] ELSE old[f]]]
    IN [vs EXCEPT ![id] = Some(version)]

(* the stages_to_backup list the workflow operations build from the state *)
StagesHeld(s) == {st \in {"intent", "research", "core_design", "extension"} : s[stage_files(st)] # Nil}

(* VersionManager.restore_version for an existing version: the safety      *)
(* snapshot, then the copy of the version's files over the live ones       *)
restore_versions(vs, d, t) == create_version(vs, d, t, "restore", {"intent", "research", "core_design", "extension"})

restore_files(vs, d, t, vid) == [d EXCEPT !.files = [f \in Files |-> IF restore_versions(vs, d, t)[vid][1].files[f] # Nil THEN restore_versions(vs, d, t)[vid][1].files[f] ELSE @[f]]]

(* restore_version that takes the safety snapshot before it looks for the  *)
(* version                                                                 *)
restore_version_snapshot_first(vs, d, t, vid) ==
    IF vs[vid] = Nil THEN [success |-> FALSE, versions |-> restore_versions(vs, d, t), disk |-> d]
    ELSE [success |-> TRUE, versions |-> restore_versions(vs, d, t), disk |-> restore_files(vs, d, t, vid)]

(* VersionManager.restore_version: False for a version directory that does *)
(* not exist, before anything is written                                   *)
restore_version(vs, d, t, vid) ==
    IF vs[vid] = Nil THEN [success |-> FALSE, versions |-> vs, disk |-> d]
    ELSE [success |-> TRUE, versions |-> restore_versions(vs, d, t), disk |-> restore_files(vs, d, t, vid)]

(* VersionManager.delete_version *)
delete_version(vs, vid) == [vs EXCEPT ![vid] = Nil]

CanCreate(vs) == get_next_version_number(vs) <= MaxVersionNumber

----------------------------------------------------------------------------
(* Context manager.  A text is a sequence of units: "@", ".", and the      *)
(* units names are written with; a name is a run of name units, as the     *)
(* pattern takes the longest run of word characters.                       *)
NameUnits == {"intent", "core", "x"}

Units == {"@", "."} \cup NameUnits

Texts == UNION {[1..n -> Units] : n \in 0..MaxText}

(* ContextManager.STAGE_ALIASES, for the aliases intent and core *)
STAGE_ALIASES == [alias \in {<<"intent">>, <<"core">>} |-> IF alias = <<"intent">> THEN "intent" ELSE "content_core"]

(* the units a stage key is written with *)
KeyUnits(stage_key) == IF stage_key = "intent" THEN <<"intent">> ELSE <<"content_", "core">>

(* ContextManager.__init__ *)
NewContextManager == [stages |-> [k \in {"intent", "consumer_research", "content_core", "content_extension"} |-> Nil], text |-> <<>>, op |-> "none", result |-> <<>>]

(* the stage records set_stage_context can have stored: the output of a    *)
(* stage as the text it formats to, and the names of its fields that hold  *)
(* content                                                                 *)
StageRecords ==
    {[k \in {"intent", "consumer_research", "content_core", "content_extension"} |->
         CASE k = "intent" -> IF i THEN Some([content |-> "live_intent", fields |-> {}]) ELSE Nil
           [] k = "content_core" -> IF c THEN Some([content |-> "live_core", fields |-> {<<"x">>}]) ELSE Nil
           [] OTHER -> Nil] : i \in BOOLEAN, c \in BOOLEAN}

(* the first index after the run of name units that starts at index i *)
RECURSIVE RunEnd(_, _)
RunEnd(text, i) == IF i <= Len(text) /\ text[i] \in NameUnits THEN RunEnd(text, i + 1) ELSE i

(* the matches of the pattern @name or @name.field in text from index i    *)
(* on, left to right and not overlapping, each with its span               *)
RECURSIVE finditer(_, _)
finditer(text, i) ==
    IF i > Len(text) THEN <<>>
    ELSE IF text[i] = "@" /\ RunEnd(text, i + 1) > i + 1
         THEN LET e == RunEnd(text, i + 1)
                  has_field == e <= Len(text) /\ text[e] = "." /\ RunEnd(text, e + 1) > e + 1
                  f == IF has_field THEN RunEnd(text, e + 1) ELSE e
              IN <<[stage_or_type |-> SubSeq(text, i + 1, e - 1), field |-> IF has_field THEN SubSeq(text, e + 1, f - 1) ELSE <<>>, first |-> i, last |-> f - 1]>> \o finditer(text, f)
         ELSE finditer(text, i + 1)

(* re.findall(pattern, text) *)
findall(text) == finditer(text, 1)

(* ContextManager._resolve_stage_reference *)
_resolve_stage_reference(stages, stage_key, display_name) ==
    [ref_type |-> "stage", stage |-> stage_key, field |-> <<>>, content |-> IF stages[stage_key] = Nil THEN "not_completed" ELSE stages[stage_key][1].content, display_name |-> display_name]

(* ContextManager._resolve_field_reference *)
_resolve_field_reference(stages, stage_key, field_name) ==
    [ref_type |-> "field", stage |-> stage_key, field |-> field_name,
     content |-> IF stages[stage_key] = Nil THEN "not_completed"
                 ELSE IF stage_key \in {"content_core", "content_extension"} /\ field_name \in stages[stage_key][1].fields THEN "live_field"
                 ELSE "field_not_found",
     display_name |-> KeyUnits(stage_key) \o <<".">> \o field_name]

(* ContextManager._resolve_reference *)
_resolve_reference(stages, stage_or_type, field) ==
    IF stage_or_type \in DOMAIN STAGE_ALIASES
    THEN IF field # <<>> THEN Some(_resolve_field_reference(stages, STAGE_ALIASES[stage_or_type], field))
         ELSE Some(_resolve_stage_reference(stages, STAGE_ALIASES[stage_or_type], stage_or_type))
    ELSE Nil

(* ContextManager.parse_references *)
parse_references(stages, text) ==
    LET matches == findall(text)
        Resolved(m) == _resolve_reference(stages, m.stage_or_type, m.field) # Nil
        found == SelectSeq(matches, Resolved)
    IN [k \in 1..Len(found) |-> _resolve_reference(stages, found[k].stage_or_type, found[k].field)[1]]

(* str.replace(old, new, 1) *)
replace(text, old, new) ==
    LET at == {i \in 1..(Len(text) - Len(old) + 1) : SubSeq(text, i, i + Len(old) - 1) = old}
    IN IF at = {} THEN text
       ELSE LET i == CHOOSE i \in at : \A j \in at : i <= j
            IN SubSeq(text, 1, i - 1) \o new \o SubSeq(text, i + Len(old), Len(text))

(* the block a reference is replaced by *)
replacement(ref) == <<"[">> \o ref.display_name \o <<":", ref.content, "]">>

(* ContextManager.inject_references, from the k-th reference on *)
RECURSIVE inject(_, _, _)
inject(text, references, k) ==
    IF k > Len(references) THEN text
    ELSE inject(replace(text, <<"@">> \o references[k].display_name, replacement(references[k])), references, k + 1)

inject_references(stages, text) == inject(text, parse_references(stages, text), 1)

----------------------------------------------------------------------------
(* Operations.  pc.at is "new" before the workflow is started, "idle"      *)
(* between operations, and names the running operation while its loop of   *)
(* advance steps is under way.                                             *)

Idle == [at |-> "idle", iterations |-> 0, chain |-> <<>>]

(* what the last operation step did: its name, how it ended, the module    *)
(* calls and outcomes of its advance, the dependency context of its field  *)
(* producer call, the field a regenerate request marked, and the roles of  *)
(* the messages the step appended to the conversation log                  *)
Obs(op, result, calls, g) == [op |-> op, result |-> result, calls |-> calls, gen |-> g, context |-> <<>>, target |-> <<0, 0>>, messages |-> <<>>, index |-> <<>>, stage |-> "none", version_id |-> 0, downstream |-> <<>>, channel_name |-> None, clarification |-> <<>>]

SuspendedWith(s, callback) == s.waiting_for_input /\ s.input_callback = callback

(* cycles counts the suspensions with intent_clarification since the last  *)
(* successful extraction; it stops counting one past max_clarifications    *)
CyclesAfter(calls, s) ==
    IF calls # <<>> /\ calls[1] = "analyzer"
    THEN IF SuspendedWith(s, "intent_clarification") THEN (IF cycles > max_clarifications THEN cycles ELSE cycles + 1)
         ELSE IF SuspendedWith(s, "confirm_intent") THEN 0 ELSE cycles
    ELSE cycles

(* the positions of the fields of a content core, in any order *)
FieldPositions(core) == {positions(core)[i] : i \in 1..Len(positions(core))}

(* the fields of a state that hold a non-empty clarification answer, by id *)
Answered(s) == IF s.content_core = Nil THEN {} ELSE {FieldAt(s.content_core[1], p).id : p \in {q \in FieldPositions(s.content_core[1]) : Truthy(FieldAt(s.content_core[1], q).clarification_answer)}}

(* answered collects the ids of the fields that held a non-empty           *)
(* clarification answer at the end of some step                            *)
AnsweredAfter(s) == answered \cup Answered(s)

Init ==
    /\ state = ProjectState
    /\ active = FALSE
    /\ disk = [project_status |-> "intent", files |-> [f \in Files |-> Nil]]
    /\ versions = [id \in VersionIds |-> Nil]
    /\ now = 1
    /\ pc = [Idle EXCEPT !.at = "new"]
    /\ obs = Obs("init", "ok", <<>>, NoGen)
    /\ allocated = {}
    /\ cycles = 0
    /\ answered = {}
    /\ manager = NewContextManager

numbers(vs) == {vs[id][1].version_number : id \in list_versions(vs)}

(* the end of an operation whose advance r ran on a registered workflow    *)
(* and that leaves the files d and the versions vs                         *)
FinishWith(op, result, r, g, d, vs) ==
    /\ state' = r.s
    /\ active' = TRUE
    /\ disk' = d
    /\ versions' = vs
    /\ allocated' = allocated \cup numbers(vs)
    /\ pc' = Idle
    /\ obs' = [Obs(op, result, r.calls, g) EXCEPT !.context = r.context, !.target = r.target, !.messages = r.messages, !.index = r.index, !.stage = r.stage, !.downstream = r.downstream, !.channel_name = r.channel_name, !.clarification = r.clarification]
    /\ cycles' = CyclesAfter(r.calls, r.s)
    /\ answered' = AnsweredAfter(r.s)
    /\ UNCHANGED manager
    /\ UNCHANGED now

Finish(op, result, r, g, d) == FinishWith(op, result, r, g, d, versions)

(* the end of an operation that advanced nothing *)
Plain(s) == Ret(s, FALSE, <<>>, TRUE)

(* an operation that goes on with a loop of advance steps *)
Running(op, at, r, g, d) ==
    /\ state' = r.s
    /\ active' = TRUE
    /\ disk' = d
    /\ pc' = [pc EXCEPT !.at = at, !.iterations = IF pc.at \in {"continue", "respond"} THEN @ + 1 ELSE 0]
    /\ obs' = [Obs(op, "running", r.calls, g) EXCEPT !.context = r.context, !.messages = r.messages, !.index = r.index, !.stage = r.stage, !.downstream = r.downstream, !.channel_name = r.channel_name, !.clarification = r.clarification]
    /\ cycles' = CyclesAfter(r.calls, r.s)
    /\ answered' = AnsweredAfter(r.s)
    /\ UNCHANGED manager
    /\ UNCHANGED <<versions, now, allocated>>

LoopDone(s) == s.waiting_for_input \/ s.current_stage = "completed"

(* the message respond_to_workflow appends after its loop *)
reply(op, s) == IF op # "respond" THEN <<>> ELSE IF s.input_prompt # None THEN <<"assistant">> ELSE IF s.current_stage # s.project_status THEN <<"system">> ELSE <<>>

(* how an operation made of advances goes on after the advance r *)
AfterAdvance(op, r, g, d) ==
    IF r.exc THEN Finish(op, "raised", r, g, d)
    ELSE IF LoopDone(r.s) THEN Finish(op, "ok", [r EXCEPT !.messages = @ \o reply(op, r.s)], g, save_state(r.s, d))
    ELSE Running(op, op, r, g, d)

(* as if the handlers awaited the Generator *)
SuspensionPoints_at_generator == {"respond", "continue", "chain"}

(* The positions of a running handler at which the event loop may start   *)
(* the handler of another request.  Every route is a coroutine whose only  *)
(* awaits are of ensure_workflow_loaded, which awaits nothing; run_stage,  *)
(* the Generator client and save_state are synchronous calls, and no       *)
(* handler starts a thread or a task.  A handler therefore gives the loop  *)
(* back only when it returns.                                              *)
SuspensionPoints == {}

LoopFree == pc.at = "idle" \/ pc.at \in SuspensionPoints

(* start_workflow *)
StartWorkflow ==
    /\ pc.at = "new"
    /\ \E g \in Gen :
          \E r \in {run_stage(ProjectState, RawInput, g)} :
             /\ r.valid
             /\ pc' = Idle
             /\ cycles' = IF r.exc THEN cycles ELSE CyclesAfter(r.calls, r.s)
             /\ IF r.exc
                THEN /\ UNCHANGED <<state, active, disk>>
                     /\ obs' = [Obs("start", "raised", r.calls, g) EXCEPT !.messages = <<"user">>]
                ELSE /\ state' = r.s
                     /\ active' = TRUE
                     /\ disk' = save_state(r.s, disk)
                     /\ obs' = [Obs("start", "ok", r.calls, g) EXCEPT !.messages = <<"user">> \o (IF r.s.input_prompt # None THEN <<"assistant">> ELSE <<>>)]
    /\ UNCHANGED <<versions, now, allocated, answered, manager>>

(* a direct call of Orchestrator.run_stage on the registered state *)
Advance ==
    /\ pc.at = "idle"
    /\ active
    /\ \E g \in Gen, input \in {EmptyInput, RawInput} \cup {AnswerInput(a) : a \in Answers} :
          \E r \in {run_stage(state, input, g)} :
             /\ r.valid
             /\ Bounded(r.s)
             /\ Finish("advance", IF r.exc THEN "raised" ELSE "ok", r, g, disk)

(* respond_to_workflow up to its first advance *)
Respond ==
    /\ LoopFree
    /\ IF ~Loaded.waiting_for_input
       THEN Finish("respond", "rejected", Plain(Loaded), NoGen, LoadedDisk)
       ELSE \E g \in Gen, a \in Answers :
               \E r \in {[run_stage(Loaded, AnswerInput(a), g) EXCEPT !.messages = <<"user">> \o @]} :
                  r.valid /\ Bounded(r.s) /\ AfterAdvance("respond", r, g, LoadedDisk)

(* respond_to_workflow with a number as the answer to the scheme selection *)
(* prompt; the handler of the callback takes int(answer) - 1 as the index  *)
SchemeAnswers == {"1", "7"}

RespondScheme ==
    /\ LoopFree
    /\ Loaded.waiting_for_input
    /\ Loaded.input_callback = "scheme_selection"
    /\ \E g \in Gen, a \in SchemeAnswers :
          \E r \in {[run_stage(Loaded, AnswerInput(a), g) EXCEPT !.messages = <<"user">> \o @, !.index = Some(ToInt(a) - 1)]} :
             r.valid /\ Bounded(r.s) /\ AfterAdvance("respond", r, g, LoadedDisk)

(* one pass of the loop of respond_to_workflow, and its final save *)
RespondStep ==
    /\ pc.at = "respond"
    /\ pc.iterations < MaxSteps
    /\ \E g \in Gen :
          \E r \in {run_stage(state, EmptyInput, g)} :
             r.valid /\ AfterAdvance("respond", r, g, disk)

(* the state continue_workflow advances from *)
ContinueFrom(s) == IF s.current_stage \in {"core_production", "extension"} THEN [s EXCEPT !.waiting_for_input = FALSE] ELSE s

ContinueRejected(s) ==
    IF s.current_stage = "completed" THEN TRUE
    ELSE IF s.current_stage = "core_production" THEN (IF s.content_core = Nil THEN TRUE ELSE s.content_core[1].selected_scheme_index = Nil)
    ELSE s.waiting_for_input /\ s.current_stage # "extension"

(* continue_workflow up to its first advance *)
Continue ==
    /\ LoopFree
    /\ IF ContinueRejected(Loaded)
       THEN Finish("continue", "rejected", Plain(Loaded), NoGen, LoadedDisk)
       ELSE \E g \in Gen :
               \E r \in {run_stage(ContinueFrom(Loaded), EmptyInput, g)} :
                  r.valid /\ AfterAdvance("continue", r, g, LoadedDisk)

(* one pass of the loop of continue_workflow, at most max_iterations of    *)
(* them, and its final save                                                *)
ContinueStep ==
    /\ pc.at = "continue"
    /\ IF pc.iterations >= max_iterations
       THEN Finish("continue", "ok", Plain(state), NoGen, save_state(state, disk))
       ELSE \E g \in Gen :
               \E r \in {run_stage(state, EmptyInput, g)} :
                  r.valid /\ AfterAdvance("continue", r, g, disk)

(* generate_fields *)
GenerateFieldsRejected(s) == IF s.content_core = Nil THEN TRUE ELSE s.content_core[1].selected_scheme_index = Nil \/ ~s.content_core[1].outline_confirmed \/ (s.content_core[1].sections # <<>> /\ get_all_fields(s.content_core[1]) = <<>>)

GenerateFields ==
    /\ LoopFree
    /\ IF GenerateFieldsRejected(Loaded)
       THEN Finish("generate_fields", "rejected", Plain(Loaded), NoGen, LoadedDisk)
       ELSE LET core == [Loaded.content_core[1] EXCEPT !.fields = IF Loaded.content_core[1].sections = <<>> /\ @ = <<>> THEN FlatFields ELSE @]
                s1 == [Loaded EXCEPT !.content_core = Some(core)]
            IN IF next_fields(core) = {} /\ Generating(core) = {}
               THEN Finish("generate_fields", "ok", Plain(s1), NoGen, LoadedDisk)
               ELSE \E g \in Gen :
                       \E r \in {run_stage([s1 EXCEPT !.current_stage = "core_production", !.project_status = "core_production", !.waiting_for_input = FALSE], EmptyInput, g)} :
                          /\ r.valid
                          /\ Finish("generate_fields", IF r.exc THEN "raised" ELSE "ok", r, g, IF r.exc THEN LoadedDisk ELSE save_state(r.s, LoadedDisk))

(* the keys a request names a field by: its id or its name *)
FieldKeys == {<<"section_field", i>> : i \in 1..NumFields} \cup {<<"added", 1>>} \cup {FieldName(i) : i \in 1..NumFields}

(* the first pending field without an answer whose schema entry declares   *)
(* a clarification prompt                                                  *)
NeedsAnswer(core) == {i \in 1..Len(positions(core)) : LET f == FieldAt(core, positions(core)[i]) IN f.status = "pending" /\ ~Truthy(f.clarification_answer) /\ schema_get_field(f.name) # Nil /\ schema_get_field(f.name)[1].clarification_prompt}

(* clarify_field: the field the answer goes to *)
clarify_target(s, field_id) ==
    LET core == s.content_core[1]
        by_id == IF field_id = Nil THEN <<0, 0>> ELSE get_field_pos(core, field_id)
        by_current == IF s.current_field = Nil THEN <<0, 0>> ELSE get_field_pos(core, s.current_field)
    IN IF by_id # <<0, 0>> THEN by_id
       ELSE IF by_current # <<0, 0>> THEN by_current
       ELSE IF NeedsAnswer(core) # {} THEN positions(core)[FirstIdx(NeedsAnswer(core))]
       ELSE <<0, 0>>

ClarifyWith(keys, answers) ==
    /\ pc.at = "idle"
    /\ \E field_id \in keys, a \in answers :
          IF Loaded.content_core = Nil
          THEN field_id = Nil /\ a = "" /\ Finish("clarify", "rejected", Plain(Loaded), NoGen, LoadedDisk)
          ELSE LET q == clarify_target(Loaded, field_id)
               IN IF q = <<0, 0>>
                  THEN Finish("clarify", "rejected", Plain(Loaded), NoGen, LoadedDisk)
                  ELSE LET core == SetField(Loaded.content_core[1], q, [FieldAt(Loaded.content_core[1], q) EXCEPT !.clarification_answer = a])
                           s1 == [Loaded EXCEPT !.content_core = Some(core), !.waiting_for_input = FALSE, !.input_callback = None, !.input_prompt = None]
                       IN Finish("clarify", "ok", [Plain(s1) EXCEPT !.clarification = Some([field_id |-> field_id, answer |-> a])], NoGen, save_state(s1, LoadedDisk))

ClarifyField == ClarifyWith({Nil} \cup FieldKeys, Answers)

(* clarify_field with the id of a field in the request *)
FieldIds == {<<"section_field", i>> : i \in 1..NumFields} \cup {<<"added", 1>>}

ClarifyFieldById == ClarifyWith(FieldIds, Answers)

(* confirm_outline *)
ConfirmOutlineRejected(s) == IF s.content_core = Nil THEN TRUE ELSE s.content_core[1].selected_scheme_index = Nil \/ get_all_fields(s.content_core[1]) = <<>>

ConfirmOutline ==
    /\ pc.at = "idle"
    /\ IF ConfirmOutlineRejected(Loaded)
       THEN Finish("confirm_outline", "rejected", Plain(Loaded), NoGen, LoadedDisk)
       ELSE LET s1 == [Loaded EXCEPT !.content_core = Some([@[1] EXCEPT !.outline_confirmed = TRUE, !.status = "field_production"]), !.waiting_for_input = FALSE, !.input_prompt = None, !.input_callback = None]
            IN Finish("confirm_outline", "ok", Plain(s1), NoGen, save_state(s1, LoadedDisk))

(* update_outline.  The outlines a caller sends: the default section split  *)
(* in two with a second field of the first name added, and the default     *)
(* section reordered with that field added in a second section.            *)
SplitOutline == <<[id |-> "section_1", fields |-> <<[id |-> <<"section_field", 1>>, name |-> FieldName(1)]>>], [id |-> "section_2", fields |-> <<[id |-> <<"section_field", 2>>, name |-> FieldName(2)], [id |-> <<"added", 1>>, name |-> FieldName(1)]>>]>>

MovedOutline == <<[id |-> "section_1", fields |-> <<[id |-> <<"section_field", 2>>, name |-> FieldName(2)], [id |-> <<"section_field", 1>>, name |-> FieldName(1)]>>], [id |-> "section_2", fields |-> <<[id |-> <<"added", 1>>, name |-> FieldName(1)]>>]>>

Outlines == {SplitOutline, MovedOutline}

(* the sections of an update_outline that builds every field anew *)
new_sections_fresh(core, sections) ==
    [i \in 1..Len(sections) |-> [id |-> sections[i].id, fields |-> [j \in 1..Len(sections[i].fields) |-> ContentField(sections[i].fields[j].id, sections[i].fields[j].name)]]]

(* the sections update_outline builds: a field whose id exists keeps its   *)
(* status, content and answer, any other field is new                      *)
new_sections(core, sections) ==
    LET existing(id) == {p \in SectionPositions(core) : FieldAt(core, p).id = id}
        last(ps) == CHOOSE p \in ps : \A q \in ps : q[1] < p[1] \/ (q[1] = p[1] /\ q[2] <= p[2])
        new_field(f) == IF existing(f.id) # {} THEN [ContentField(f.id, f.name) EXCEPT !.status = FieldAt(core, last(existing(f.id))).status, !.content = FieldAt(core, last(existing(f.id))).content, !.clarification_answer = FieldAt(core, last(existing(f.id))).clarification_answer] ELSE ContentField(f.id, f.name)
    IN [i \in 1..Len(sections) |-> [id |-> sections[i].id, fields |-> [j \in 1..Len(sections[i].fields) |-> new_field(sections[i].fields[j])]]]

update_outline(s, sections, confirm) == [s EXCEPT !.content_core = Some([@[1] EXCEPT !.sections = new_sections(s.content_core[1], sections), !.outline_confirmed = IF confirm THEN TRUE ELSE @, !.status = IF confirm THEN "outline_confirmed" ELSE "outline_editing"])]

UpdateOutline ==
    /\ pc.at = "idle"
    /\ IF Loaded.content_core = Nil
       THEN Finish("update_outline", "rejected", Plain(Loaded), NoGen, LoadedDisk)
       ELSE \E sections \in Outlines, confirm \in BOOLEAN :
               Finish("update_outline", "ok", Plain(update_outline(Loaded, sections, confirm)), NoGen, save_state(update_outline(Loaded, sections, confirm), LoadedDisk))

(* the selection, flat fields and status a step back to scheme selection   *)
(* resets                                                                  *)
Unselect(core) == IF core = Nil THEN Nil ELSE Some([core[1] EXCEPT !.selected_scheme_index = Nil, !.fields = <<>>, !.status = "scheme_selection"])

(* rollback_clear with the content core kept on a rollback to core_design *)
rollback_clear_keeping_core(s, target) ==
    LET target_index == StageIndex(target)
        core == IF target_index < StageIndex("core_design") THEN Nil ELSE s.content_core
    IN [s EXCEPT !.consumer_research = IF target_index <= StageIndex("research") THEN Nil ELSE @,
                 !.content_core = IF target_index <= StageIndex("core_production") THEN Unselect(core) ELSE core,
                 !.content_extension = IF target_index <= StageIndex("extension") THEN Nil ELSE @]

(* rollback_to_stage: the records cleared for a target stage *)
rollback_clear(s, target) ==
    LET target_index == StageIndex(target)
        core == IF target_index <= StageIndex("core_design") THEN Nil ELSE s.content_core
    IN [s EXCEPT !.consumer_research = IF target_index <= StageIndex("research") THEN Nil ELSE @,
                 !.content_core = IF target_index <= StageIndex("core_production") THEN Unselect(core) ELSE core,
                 !.content_extension = IF target_index <= StageIndex("extension") THEN Nil ELSE @]

rollback_to_stage(s, target) == [rollback_clear(s, target) EXCEPT !.current_stage = target, !.project_status = target, !.waiting_for_input = TRUE, !.input_prompt = "rolled_back"]

(* the requests rollback_to_stage answers with 400, with the test of the   *)
(* order made one place late                                               *)
rollback_rejected_late(s, target_stage) == target_stage \notin Stages \/ StageIndex(target_stage) > StageIndex(s.current_stage)

(* the requests rollback_to_stage answers with 400 *)
rollback_rejected(s, target_stage) == target_stage \notin Stages \/ StageIndex(target_stage) >= StageIndex(s.current_stage)

RollbackTo(target) ==
    /\ LoopFree
    /\ IF rollback_rejected(Loaded, target)
       THEN Finish("rollback", "rejected", [Plain(Loaded) EXCEPT !.stage = target], NoGen, LoadedDisk)
       ELSE /\ CanCreate(versions)
            /\ FinishWith("rollback", "ok", [Plain(rollback_to_stage(Loaded, target)) EXCEPT !.messages = <<"system">>, !.stage = target], NoGen, save_state(rollback_to_stage(Loaded, target), LoadedDisk), create_version(versions, LoadedDisk, now, "rollback", StagesHeld(Loaded)))

(* target_stage of a request: a stage name, or a string that is none *)
RollbackTargets == Stages \cup {"unknown"}

Rollback == \E target \in RollbackTargets : RollbackTo(target)

(* select_scheme *)
SchemeIndexes == {0, alternatives_count}

SelectScheme ==
    /\ pc.at = "idle"
    /\ \E scheme_index \in SchemeIndexes, with_schema \in BOOLEAN, force_rollback \in BOOLEAN :
          LET later == StageIndex(Loaded.current_stage) > StageIndex("core_design")
              stages_to_backup == StagesHeld(Loaded) \ {"intent", "research"}
              vs == IF later /\ stages_to_backup # {} THEN create_version(versions, LoadedDisk, now, "reselect_scheme", stages_to_backup) ELSE versions
              s1 == IF later THEN [Loaded EXCEPT !.content_core = Unselect(@), !.content_extension = Nil] ELSE Loaded
          IN IF later /\ ~force_rollback
             THEN Finish("select_scheme", "need_rollback", [Plain(Loaded) EXCEPT !.index = Some(scheme_index)], NoGen, LoadedDisk)
             ELSE /\ vs = versions \/ CanCreate(versions)
                  /\ IF s1.content_core = Nil \/ scheme_index < 0 \/ scheme_index >= alternatives_count
                     THEN FinishWith("select_scheme", "rejected", [Plain(s1) EXCEPT !.index = Some(scheme_index)], NoGen, LoadedDisk, vs)
                     ELSE LET core == [s1.content_core[1] EXCEPT !.selected_scheme_index = Some(scheme_index), !.fields = IF with_schema THEN FlatFields ELSE @, !.status = "field_production"]
                              s2 == [s1 EXCEPT !.content_core = Some(core), !.current_stage = "core_production", !.project_status = "core_production", !.waiting_for_input = FALSE]
                          IN FinishWith("select_scheme", "ok", [Plain(s2) EXCEPT !.messages = <<"system">>, !.index = Some(scheme_index)], NoGen, save_state(s2, LoadedDisk), vs)

(* the section fields in document order, as positions *)
SectionOrder(core) == IF core.sections = <<>> THEN <<>> ELSE positions(core)

(* the loop that flags the completed section fields after field_id *)
mark_stale(core, field_id) ==
    LET order == SectionOrder(core)
        hits == {i \in 1..Len(order) : FieldAt(core, order[i]).id = field_id}
        after == IF hits = {} THEN {} ELSE {order[i] : i \in (FirstIdx(hits) + 1)..Len(order)}
    IN [core EXCEPT !.sections = [k \in 1..Len(@) |-> [@[k] EXCEPT !.fields = [i \in 1..Len(@) |-> IF <<k, i>> \in after /\ @[i].id # field_id /\ @[i].status = "completed" THEN [@[i] EXCEPT !.context_stale = TRUE] ELSE @[i]]]]]

SetStatus(s, p, status) == [s EXCEPT !.content_core = Some(SetField(@[1], p, [FieldAt(@[1], p) EXCEPT !.status = status]))]

(* regenerate_single_field *)
RegenerateField ==
    /\ LoopFree
    /\ \E field_id \in FieldKeys :
          LET p == IF Loaded.content_core = Nil THEN <<0, 0>> ELSE get_field_pos(Loaded.content_core[1], field_id)
          IN IF p = <<0, 0>>
             THEN Finish("regenerate", "rejected", Plain(Loaded), NoGen, LoadedDisk)
             ELSE \E g \in Gen :
                     \E r \in {[run_stage([SetStatus(Loaded, p, "generating") EXCEPT !.current_stage = "core_production", !.project_status = "core_production", !.waiting_for_input = FALSE], OtherInput, g) EXCEPT !.target = p]} :
                     LET failed == [r EXCEPT !.s = SetStatus(r.s, p, "failed")]
                         done == [r EXCEPT !.s.content_core = Some(mark_stale(@[1], field_id))]
                     IN /\ r.valid
                        /\ IF r.exc THEN Finish("regenerate", "raised", failed, g, save_state(failed.s, LoadedDisk))
                           ELSE Finish("regenerate", "ok", done, g, save_state(done.s, LoadedDisk))

(* mark_fields_stale: the request names the modified field by its id *)
MarkStale ==
    /\ pc.at = "idle"
    /\ \E modified_field_id \in FieldKeys :
          LET at == IF Loaded.content_core = Nil THEN {} ELSE {q \in SectionPositions(Loaded.content_core[1]) : FieldAt(Loaded.content_core[1], q).id = modified_field_id}
          IN IF at = {}
             THEN Finish("mark_stale", "rejected", Plain(Loaded), NoGen, LoadedDisk)
             ELSE LET s1 == [Loaded EXCEPT !.content_core = Some(mark_stale(@[1], modified_field_id))]
                  IN Finish("mark_stale", "ok", [Plain(s1) EXCEPT !.target = FirstPos(at)], NoGen, save_state(s1, LoadedDisk))

(* regenerate_chain: the section fields from the chain head to the end *)
chain_fields(core, chain_id) ==
    LET order == SectionOrder(core)
        hits == {i \in 1..Len(order) : FieldAt(core, order[i]).id = chain_id}
    IN IF hits = {} THEN <<>> ELSE SubSeq(order, FirstIdx(hits), Len(order))

(* regenerate_chain up to its loop *)
RegenerateChain ==
    /\ LoopFree
    /\ \E chain_id \in FieldKeys :
          LET found == IF Loaded.content_core = Nil THEN FALSE ELSE get_field_pos(Loaded.content_core[1], chain_id) # <<0, 0>>
              chain == IF found THEN chain_fields(Loaded.content_core[1], chain_id) ELSE <<>>
          IN IF chain = <<>>
             THEN Finish("regenerate_chain", "rejected", Plain(Loaded), NoGen, LoadedDisk)
             ELSE /\ state' = Loaded
                  /\ active' = TRUE
                  /\ disk' = LoadedDisk
                  /\ pc' = [Idle EXCEPT !.at = "chain", !.chain = chain]
                  /\ obs' = Obs("regenerate_chain", "running", <<>>, NoGen)
                  /\ UNCHANGED <<versions, now, allocated, cycles, answered, manager>>

(* one pass of the loop of regenerate_chain, and its final save *)
RegenerateChainStep ==
    /\ pc.at = "chain"
    /\ \E g \in Gen :
          \E p \in {Head(pc.chain)} :
          \E r \in {[run_stage([SetStatus(state, p, "generating") EXCEPT !.waiting_for_input = FALSE], OtherInput, g) EXCEPT !.target = p]} :
          LET after == IF r.exc THEN [r EXCEPT !.s = SetStatus(r.s, p, "failed")] ELSE r
          IN /\ r.valid
             /\ IF Tail(pc.chain) = <<>>
                THEN Finish("regenerate_chain", "ok", after, g, save_state(after.s, disk))
                ELSE /\ state' = after.s
                     /\ pc' = [pc EXCEPT !.chain = Tail(@)]
                     /\ obs' = [Obs("regenerate_chain", "running", r.calls, g) EXCEPT !.context = r.context, !.target = p, !.messages = r.messages]
                     /\ cycles' = CyclesAfter(r.calls, r.s)
                     /\ answered' = AnsweredAfter(after.s)
                     /\ UNCHANGED manager
                     /\ UNCHANGED <<active, disk, versions, now, allocated>>

(* update_intent *)
UpdateIntent ==
    /\ pc.at = "idle"
    /\ IF Loaded.intent = Nil
       THEN Finish("update_intent", "rejected", Plain(Loaded), NoGen, LoadedDisk)
       ELSE \E goal \in Edited :
               LET s1 == [Loaded EXCEPT !.intent = Some([@[1] EXCEPT !.goal = goal])]
               IN Finish("update_intent", "ok", Plain(s1), NoGen, save_state(s1, LoadedDisk))

(* create_version of the versions API *)
CreateVersion ==
    /\ pc.at = "idle"
    /\ CanCreate(versions)
    /\ FinishWith("create_version", "ok", Plain(Loaded), NoGen, LoadedDisk, create_version(versions, LoadedDisk, now, "manual", StagesHeld(Loaded)))

(* restore_version of the versions API: the restore, then the removal of   *)
(* the workflow from the registry                                          *)
RestoreVersionOf(vid) ==
    /\ pc.at = "idle"
    /\ \E r \in {restore_version(versions, disk, now, vid)} :
          /\ versions' = r.versions
          /\ disk' = r.disk
          /\ allocated' = allocated \cup numbers(versions')
          /\ IF ~r.success
             THEN /\ obs' = [Obs("restore_version", "rejected", <<>>, NoGen) EXCEPT !.version_id = vid]
                  /\ UNCHANGED active
             ELSE /\ CanCreate(versions)
                  /\ active' = FALSE
                  /\ obs' = [Obs("restore_version", "ok", <<>>, NoGen) EXCEPT !.version_id = vid]
    /\ UNCHANGED <<state, now, pc, cycles, answered, manager>>

RestoreVersion == \E vid \in VersionIds : RestoreVersionOf(vid)

(* delete_version of the versions API *)
DeleteVersion ==
    /\ pc.at = "idle"
    /\ \E vid \in VersionIds :
          /\ obs' = [Obs("delete_version", IF versions[vid] = Nil THEN "rejected" ELSE "ok", <<>>, NoGen) EXCEPT !.version_id = vid]
          /\ versions' = delete_version(versions, vid)
    /\ UNCHANGED <<state, active, disk, now, pc, allocated, cycles, answered, manager>>

(* get_workflow_status, get_workflow_data and get_outline: the workflow is *)
(* loaded and a view of it is returned                                     *)
GetStatus ==
    /\ pc.at = "idle"
    /\ Finish("status", "ok", Plain(Loaded), NoGen, LoadedDisk)

GetData ==
    /\ pc.at = "idle"
    /\ Finish("data", "ok", Plain(Loaded), NoGen, LoadedDisk)

GetOutline ==
    /\ pc.at = "idle"
    /\ Finish("outline", IF Loaded.content_core = Nil THEN "no_content_core" ELSE "ok", Plain(Loaded), NoGen, LoadedDisk)

(* list_versions of the versions API: the version manager is asked, the    *)
(* workflow is not loaded                                                  *)
ListVersions ==
    /\ pc.at = "idle"
    /\ obs' = Obs("list_versions", "ok", <<>>, NoGen)
    /\ UNCHANGED <<state, active, disk, versions, now, pc, allocated, cycles, answered, manager>>

(* the arguments of should_create_version: a stage name or a string that  *)
(* is none, and a dict from stage names to has-data flags                  *)
ModifiedStages == Stages \cup {"", "unknown"}

DownstreamDicts == UNION {[D -> BOOLEAN] : D \in SUBSET {version_stage_order[i] : i \in 1..Len(version_stage_order)}}

(* a call of VersionManager.should_create_version *)
ShouldCreateVersion ==
    /\ \E modified_stage \in ModifiedStages, downstream_stages \in DownstreamDicts :
          obs' = [Obs("should_create_version", IF should_create_version(modified_stage, downstream_stages) THEN "true" ELSE "false", <<>>, NoGen) EXCEPT !.stage = modified_stage, !.downstream = downstream_stages]
    /\ UNCHANGED <<state, active, disk, versions, now, pc, allocated, cycles, answered, manager>>

(* check_version_needed: the has-data flags it builds from the state *)
downstream_stages(s) ==
    [st \in {"research", "core_design", "core_production", "extension"} |->
        CASE st = "research" -> s.consumer_research # Nil
          [] st = "core_design" -> s.content_core # Nil
          [] st = "core_production" -> IF s.content_core = Nil THEN FALSE ELSE s.content_core[1].status = "completed"
          [] OTHER -> s.content_extension # Nil]

CheckVersionNeeded ==
    /\ pc.at = "idle"
    /\ \E modified_stage \in ModifiedStages :
          Finish("check_version_needed", IF should_create_version(modified_stage, downstream_stages(Loaded)) THEN "true" ELSE "false", [Plain(Loaded) EXCEPT !.stage = modified_stage, !.downstream = downstream_stages(Loaded)], NoGen, LoadedDisk)

(* a call of ContextManager.parse_references on the text at hand *)
ParseReferences ==
    /\ manager' = [manager EXCEPT !.op = "parse_references", !.result = parse_references(manager.stages, manager.text)]
    /\ UNCHANGED <<state, active, disk, versions, now, pc, obs, allocated, cycles, answered>>

(* a call of ContextManager.inject_references on the text at hand *)
InjectReferences ==
    /\ manager' = [manager EXCEPT !.op = "inject_references", !.result = inject_references(manager.stages, manager.text)]
    /\ UNCHANGED <<state, active, disk, versions, now, pc, obs, allocated, cycles, answered>>

(* the clock *)
Tick ==
    /\ now < MaxTime
    /\ now' = now + 1
    /\ UNCHANGED <<state, active, disk, versions, pc, obs, allocated, cycles, answered, manager>>

(* reorder_sections and reorder_fields_in_section.  A request lists ids;   *)
(* it is refused unless the set of its ids is the set of the ids of the    *)
(* current list, and the new list holds, for each id of the request in     *)
(* turn, the item the id maps to (the last one that carries it)            *)
ItemIds(items) == {items[i].id : i \in 1..Len(items)}

SetOf(ids) == {ids[i] : i \in 1..Len(ids)}

reorder_refused(items, ids) == ItemIds(items) # SetOf(ids)

item_map(items, id) == items[CHOOSE i \in 1..Len(items) : items[i].id = id /\ \A j \in 1..Len(items) : items[j].id = id => j <= i]

reorder(items, ids) == [i \in 1..Len(ids) |-> item_map(items, ids[i])]

(* the id lists a caller sends: up to MaxReorder ids, each the id of an     *)
(* item or an id that no item carries                                      *)
ReorderRequests(items, other) == UNION {[1..n -> ItemIds(items) \cup {other}] : n \in 0..MaxReorder}

ReorderSections ==
    /\ pc.at = "idle"
    /\ IF Loaded.content_core = Nil
       THEN Finish("reorder_sections", "rejected", Plain(Loaded), NoGen, LoadedDisk)
       ELSE \E section_ids \in ReorderRequests(Loaded.content_core[1].sections, "unknown") :
               IF reorder_refused(Loaded.content_core[1].sections, section_ids)
               THEN Finish("reorder_sections", "rejected", Plain(Loaded), NoGen, LoadedDisk)
               ELSE \E s1 \in {[Loaded EXCEPT !.content_core[1].sections = reorder(@, section_ids)]} :
                       Finish("reorder_sections", "ok", Plain(s1), NoGen, save_state(s1, LoadedDisk))

(* ContentCore.get_section: the first section with the id *)
get_section(core, section_id) == {k \in 1..Len(core.sections) : core.sections[k].id = section_id /\ \A j \in 1..(k - 1) : core.sections[j].id # section_id}

ReorderFieldsInSection ==
    /\ pc.at = "idle"
    /\ IF Loaded.content_core = Nil
       THEN Finish("reorder_fields", "rejected", Plain(Loaded), NoGen, LoadedDisk)
       ELSE \E section_id \in ItemIds(Loaded.content_core[1].sections) \cup {"unknown"} :
               IF get_section(Loaded.content_core[1], section_id) = {}
               THEN Finish("reorder_fields", "rejected", Plain(Loaded), NoGen, LoadedDisk)
               ELSE \E k \in get_section(Loaded.content_core[1], section_id) :
                       \E field_ids \in ReorderRequests(Loaded.content_core[1].sections[k].fields, <<"unknown", 0>>) :
                          IF reorder_refused(Loaded.content_core[1].sections[k].fields, field_ids)
                          THEN Finish("reorder_fields", "rejected", [Plain(Loaded) EXCEPT !.target = <<k, 0>>], NoGen, LoadedDisk)
                          ELSE \E s1 \in {[Loaded EXCEPT !.content_core[1].sections[k].fields = reorder(@, field_ids)]} :
                                  Finish("reorder_fields", "ok", [Plain(s1) EXCEPT !.target = <<k, 0>>], NoGen, save_state(s1, LoadedDisk))

(* the server process starts again: _active_workflows is empty, and the     *)
(* next operation on the workflow loads it from its files                  *)
Restart ==
    /\ pc.at = "idle"
    /\ active
    /\ active' = FALSE
    /\ state' = ProjectState
    /\ UNCHANGED <<disk, versions, now, pc, obs, allocated, cycles, answered, manager>>

(* The engine and the conversation operations *)
Next == StartWorkflow \/ Advance \/ Respond \/ RespondStep \/ Continue \/ ContinueStep

Spec == Init /\ [][Next]_vars

(* The conversation with rollbacks and reselection of the scheme *)
NextRollback == StartWorkflow \/ Respond \/ RespondStep \/ Rollback \/ SelectScheme

SpecRollback == Init /\ [][NextRollback]_vars

(* The field operations *)
NextFields == StartWorkflow \/ Respond \/ RespondStep \/ GenerateFields \/ RegenerateField \/ RegenerateChain \/ RegenerateChainStep

SpecFields == Init /\ [][NextFields]_vars

(* The conversation with the outline and clarification operations *)
NextOutline == StartWorkflow \/ Respond \/ RespondStep \/ Continue \/ ContinueStep \/ ConfirmOutline \/ ClarifyField

SpecOutline == Init /\ [][NextOutline]_vars

(* The clarification answers on an outline the caller edits *)
NextClarify == StartWorkflow \/ Respond \/ RespondStep \/ UpdateOutline \/ ClarifyFieldById

SpecClarify == Init /\ [][NextClarify]_vars

(* The conversation with rollbacks on a server that is started again *)
NextRestart == StartWorkflow \/ Respond \/ RespondStep \/ Rollback \/ Restart

SpecRestart == Init /\ [][NextRestart]_vars

(* The reordering of an outline.  The workflows it starts from: the one    *)
(* whose scheme was just selected and the one whose fields are all         *)
(* produced, each with its default section or after an update_outline      *)
After(s, input) == run_stage(s, input, NoGen).s

SchemeSelected == After(After(After(After(ProjectState, RawInput), AnswerInput("1")), AnswerInput("1")), AnswerInput("1"))

FieldsProduced == After(After(After(After(After(SchemeSelected, AnswerInput("1")), AnswerInput("1")), EmptyInput), EmptyInput), EmptyInput)

ReorderStates == {SchemeSelected, FieldsProduced} \cup {update_outline(s, sections, confirm) : s \in {SchemeSelected, FieldsProduced}, sections \in Outlines, confirm \in BOOLEAN}

InitReorder ==
    /\ state \in ReorderStates
    /\ active = TRUE
    /\ disk = save_state(state, [project_status |-> "intent", files |-> [f \in Files |-> Nil]])
    /\ versions = [id \in VersionIds |-> Nil]
    /\ now = 1
    /\ pc = Idle
    /\ obs = Obs("init", "ok", <<>>, NoGen)
    /\ allocated = {}
    /\ cycles = 0
    /\ answered = Answered(state)
    /\ manager = NewContextManager

NextReorder == ReorderSections \/ ReorderFieldsInSection

SpecReorder == InitReorder /\ [][NextReorder]_vars

(* The version manager on a project whose intent is edited *)
NextVersions == StartWorkflow \/ UpdateIntent \/ CreateVersion \/ RestoreVersion \/ DeleteVersion \/ Tick

SpecVersions == Init /\ [][NextVersions]_vars

(* The field production on an outline the caller edits *)
NextSections == StartWorkflow \/ Respond \/ RespondStep \/ UpdateOutline \/ GenerateFields

SpecSections == Init /\ [][NextSections]_vars

(* The two ways of selecting a design scheme *)
NextSchemes == StartWorkflow \/ Respond \/ RespondStep \/ RespondScheme \/ SelectScheme

SpecSchemes == Init /\ [][NextSchemes]_vars

(* The inspection operations, on registered and on unregistered workflows *)
NextReads == StartWorkflow \/ Respond \/ RespondStep \/ CreateVersion \/ RestoreVersion \/ GetStatus \/ GetData \/ GetOutline \/ ListVersions \/ CheckVersionNeeded

SpecReads == Init /\ [][NextReads]_vars

(* The resolution of references: a context manager that holds any stage   *)
(* records, and any text                                                   *)
InitReferences ==
    /\ state = ProjectState
    /\ active = FALSE
    /\ disk = [project_status |-> "intent", files |-> [f \in Files |-> Nil]]
    /\ versions = [id \in VersionIds |-> Nil]
    /\ now = 1
    /\ pc = [Idle EXCEPT !.at = "new"]
    /\ obs = Obs("init", "ok", <<>>, NoGen)
    /\ allocated = {}
    /\ cycles = 0
    /\ answered = {}
    /\ manager \in {[NewContextManager EXCEPT !.stages = stages, !.text = text] : stages \in StageRecords, text \in Texts}

NextReferences == ParseReferences \/ InjectReferences

SpecReferences == InitReferences /\ [][NextReferences]_vars

(* The test for a version before an edit *)
NextShouldCreate == ShouldCreateVersion

SpecShouldCreate == Init /\ [][NextShouldCreate]_vars

(* The regeneration of single fields and the staleness marking *)
NextStale == StartWorkflow \/ Respond \/ RespondStep \/ RegenerateField \/ MarkStale

SpecStale == Init /\ [][NextStale]_vars

----------------------------------------------------------------------------
(* Properties *)

(* C1: between operations, waiting_for_input is true if and only if        *)
(* input_callback is one of the eight callback tokens.                     *)
C1_WaitingIffCallback == pc.at = "idle" => (state.waiting_for_input <=> state.input_callback \in CallbackTokens)

AllFields(core) == get_all_fields(core)

GeneratingCount(s) == IF s.content_core = Nil THEN 0 ELSE Cardinality(Generating(s.content_core[1]))

(* C2: between operations, at most one field of the project has status     *)
(* generating.                                                             *)
C2_AtMostOneGenerating == pc.at = "idle" => GeneratingCount(state) <= 1

(* the output of a stage is null or empty in the state s *)
OutputEmpty(s, stage) ==
    CASE stage = "intent" -> s.intent = Nil
      [] stage = "research" -> s.consumer_research = Nil
      [] stage = "core_design" -> s.content_core = Nil
      [] stage = "core_production" -> IF s.content_core = Nil THEN TRUE ELSE \A i \in 1..Len(AllFields(s.content_core[1])) : AllFields(s.content_core[1])[i].content = Nil
      [] stage = "extension" -> s.content_extension = Nil
      [] OTHER -> TRUE

(* C3: a successful rollback to a stage S before the current one leaves     *)
(* current_stage = S and a null or empty output for every stage strictly   *)
(* after S in stage_order.                                                 *)
C3_RollbackClearsDownstream ==
    [][\A target \in Stages : (RollbackTo(target) /\ obs'.result = "ok") =>
          /\ StageIndex(target) < StageIndex(Loaded.current_stage)
          /\ state'.current_stage = target
          /\ \A stage \in Stages : StageIndex(stage) > StageIndex(target) => OutputEmpty(state', stage)]_vars

(* a rollback to research from a state that held a content core *)
C3_Witness ==
    /\ obs.op = "rollback" /\ obs.result = "ok"
    /\ state.current_stage = "research"
    /\ \E id \in VersionIds : IF versions[id] = Nil THEN FALSE ELSE versions[id][1].trigger_action = "rollback" /\ "core_design" \in versions[id][1].backed_up_stages

(* a step that writes the version directory id *)
Created(id) == versions'[id] # Nil /\ versions'[id] # versions[id]

(* C4: every created version gets a version_number greater than every      *)
(* number allocated before, the numbers of deleted versions included.      *)
C4_NumbersNeverReused == [][\A id \in VersionIds : Created(id) => \A n \in allocated : versions'[id][1].version_number > n]_vars

(* C5: restoring a version makes every live artifact the version captured   *)
(* identical to the captured content.                                      *)
C5_RestoreRoundTrip ==
    [][\A vid \in VersionIds : (RestoreVersionOf(vid) /\ obs'.result = "ok") =>
          \A f \in Files : versions[vid][1].files[f] # Nil => disk'.files[f] = versions[vid][1].files[f]]_vars

(* C6: no step changes the snapshot files or the metadata of a version      *)
(* that exists before and after it.                                        *)
C6_VersionsImmutable == [][\A id \in VersionIds : (versions[id] # Nil /\ versions'[id] # Nil) => versions'[id] = versions[id]]_vars

(* C7: a successful restore keeps every version and adds exactly one.       *)
C7_RestoreAddsOneVersion ==
    [][\A vid \in VersionIds : (RestoreVersionOf(vid) /\ obs'.result = "ok") =>
          /\ list_versions(versions) \subseteq list_versions(versions')
          /\ Cardinality(list_versions(versions') \ list_versions(versions)) = 1]_vars

(* the step ran the intent analysis *)
AnalysisRan == obs'.calls # <<>> /\ obs'.calls[1] = "analyzer"

Forced == <<"analyzer", "analyzer_forced">>

(* the step ran an intent extraction that succeeded, at once or forced *)
ExtractionSucceeded == AnalysisRan /\ obs'.result # "raised" /\ (IF obs'.gen.first = "need_input" THEN obs'.calls = Forced /\ obs'.gen.second = "ok" ELSE obs'.gen.first = "ok")

(* C8: an intent analysis suspends with intent_clarification at most        *)
(* max_clarifications times; an advance after that many cycles does not    *)
(* suspend with intent_clarification again and answers a further request   *)
(* for clarification with exactly one forced extraction call.              *)
C8_ClarificationBound ==
    /\ [](cycles <= max_clarifications)
    /\ [][(cycles = max_clarifications /\ AnalysisRan) =>
             /\ ~SuspendedWith(state', "intent_clarification")
             /\ (obs'.gen.first = "need_input" <=> obs'.calls = Forced)]_vars

(* a forced extraction after max_clarifications cycles that failed *)
C8_Witness == cycles = max_clarifications /\ obs.calls = Forced /\ ~state.waiting_for_input

(* C9 as stated: the advance after the 3rd clarification cycle, when its    *)
(* extraction succeeds, sets current_stage to research.                    *)
C9_FourthAdvanceEntersResearch == [][(cycles = max_clarifications /\ ExtractionSucceeded) => state'.current_stage = "research"]_vars

(* C9 amended: the advance after the 3rd clarification cycle does not       *)
(* suspend with intent_clarification again and leaves current_stage at     *)
(* intent; when its extraction succeeds it suspends with confirm_intent.   *)
C9_FourthAdvanceAwaitsConfirmation ==
    [][(cycles = max_clarifications /\ AnalysisRan) =>
          /\ state'.current_stage = "intent"
          /\ ~SuspendedWith(state', "intent_clarification")
          /\ (ExtractionSucceeded => SuspendedWith(state', "confirm_intent"))]_vars

(* a forced extraction that succeeded and waits for the confirmation *)
C9_Witness == obs.calls = Forced /\ obs.gen.second = "ok" /\ state.current_stage = "intent" /\ SuspendedWith(state, "confirm_intent") /\ state.intent # Nil

(* C10: every successful intent extraction leaves current_stage at intent   *)
(* and suspends with confirm_intent, and current_stage goes from intent to *)
(* research only in a step that handles an input for the callback          *)
(* confirm_intent.                                                         *)
C10_NoAutomaticAdvance ==
    [][/\ ExtractionSucceeded => (state'.current_stage = "intent" /\ SuspendedWith(state', "confirm_intent"))
       /\ (Loaded.current_stage = "intent" /\ state'.current_stage = "research") =>
             (Loaded.waiting_for_input /\ DispatchedCallback(Loaded) = "confirm_intent" /\ obs'.op \in {"advance", "respond"} /\ pc.at = "idle")]_vars

(* the confirmation of an extracted intent moved the project to research *)
C10_Witness == obs.op = "respond" /\ obs.calls = <<"researcher">> /\ state.current_stage = "research" /\ state.intent # Nil

(* some field that was pending in the core old is generating or completed  *)
(* in the core new                                                         *)
FieldProduced(old, new) == \E p \in FieldPositions(old) \cap FieldPositions(new) : FieldAt(old, p).status = "pending" /\ FieldAt(new, p).status \in {"generating", "completed"}

(* C11: a step that leaves outline_confirmed false makes no Generator call  *)
(* for a field and moves no field from pending to generating or completed. *)
C11_ProductionGated ==
    [][(IF state'.content_core = Nil THEN FALSE ELSE ~state'.content_core[1].outline_confirmed) =>
          /\ obs'.calls # <<"producer">>
          /\ (Loaded.content_core # Nil => ~FieldProduced(Loaded.content_core[1], state'.content_core[1]))]_vars

(* the status of the field an advance in core_production selected, which   *)
(* it names in current_field                                               *)
CurrentFieldStatus(s) ==
    IF s.current_field = Nil \/ s.content_core = Nil THEN None
    ELSE LET at == {p \in FieldPositions(s.content_core[1]) : FieldAt(s.content_core[1], p).id = s.current_field}
         IN IF at = {} THEN None ELSE FieldAt(s.content_core[1], FirstPos(at)).status

(* the step made a Generator call for a field, and the call raised *)
ProducerRaised == obs'.calls = <<"producer">> /\ obs'.gen.first = "raise"

(* C12: when the Generator raises while an advance generates a field, the   *)
(* operation makes no further advance and leaves that field failed.        *)
C12_FailedAfterGeneratorFailure == [][ProducerRaised => (pc'.at \in {"idle", "chain"} /\ CurrentFieldStatus(state') = "failed")]_vars

(* the position of the field an advance in core_production selected *)
CalledField(s) == FirstPos({p \in FieldPositions(s.content_core[1]) : FieldAt(s.content_core[1], p).id = s.current_field})

(* the fields the schema entry of the field at p names in depends_on *)
NamedDependencies(core, p) ==
    LET field_def == schema_get_field(FieldAt(core, p).name)
        depends_on == IF field_def = Nil THEN <<>> ELSE field_def[1].depends_on
    IN {get_field_pos(core, depends_on[i]) : i \in 1..Len(depends_on)} \ {<<0, 0>>, p}

(* the step made a Generator call for a field, and the call returned; the  *)
(* other fields are then as they were when the context was assembled       *)
ProducerReturned == obs'.calls = <<"producer">> /\ obs'.gen.first = "ok"

(* C13: the context assembled for a field holds the content of every named  *)
(* dependency that is completed and no content of a named dependency that  *)
(* is not completed.                                                       *)
C13_DependencyCompleteness ==
    [][ProducerReturned =>
          LET core == state'.content_core[1]
          IN \A d \in NamedDependencies(core, CalledField(state')) :
                IF FieldAt(core, d).status = "completed"
                THEN FieldAt(core, d).content # Nil => \E j \in 1..Len(obs'.context) : obs'.context[j].source = d /\ obs'.context[j].content = FieldAt(core, d).content
                ELSE \A j \in 1..Len(obs'.context) : obs'.context[j].source # d]_vars

(* the completed fields that precede position p inside its own section *)
CompletedBefore(core, p) == IF p[1] = 0 THEN {} ELSE {<<p[1], i>> : i \in {j \in 1..(p[2] - 1) : FieldAt(core, <<p[1], j>>).status = "completed" /\ FieldAt(core, <<p[1], j>>).content # Nil}}

(* the fields whose content a context holds *)
Sources(context) == {context[j].source : j \in 1..Len(context)}

(* C14: the context assembled for a field F holds every completed field     *)
(* that precedes F inside F's own section, and beyond the named            *)
(* dependencies it holds nothing else.                                     *)
C14_ImplicitDependencies ==
    [][ProducerReturned =>
          LET core == state'.content_core[1]
              F == CalledField(state')
          IN /\ CompletedBefore(core, F) \subseteq Sources(obs'.context)
             /\ (Sources(obs'.context) \ NamedDependencies(core, F)) \subseteq CompletedBefore(core, F)]_vars

(* q comes before p in document order *)
Before(q, p) == q[1] < p[1] \/ (q[1] = p[1] /\ q[2] < p[2])

(* the first field in document order with the given status *)
FirstWithStatus(core, status) == CHOOSE p \in FieldPositions(core) : FieldAt(core, p).status = status /\ \A q \in FieldPositions(core) : Before(q, p) => FieldAt(core, q).status # status

HasStatus(core, status) == \E p \in FieldPositions(core) : FieldAt(core, p).status = status

(* the field the selection rule names: the first generating field if any,  *)
(* otherwise the first pending field                                       *)
ExpectedField(core) == IF HasStatus(core, "generating") THEN FirstWithStatus(core, "generating") ELSE FirstWithStatus(core, "pending")

(* the content core the advance of this step selects from: the one the     *)
(* operation works on, with the field a regenerate request marked          *)
SelectionCore == IF obs'.target = <<0, 0>> THEN Loaded.content_core[1] ELSE SetField(Loaded.content_core[1], obs'.target, [FieldAt(Loaded.content_core[1], obs'.target) EXCEPT !.status = "generating"])

(* the advance of this step selected a field in core_production *)
FieldSelected ==
    /\ obs'.op \in {"respond", "generate_fields", "regenerate", "regenerate_chain"}
    /\ obs'.result # "rejected"
    /\ ~(pc.at = "idle" /\ obs'.op = "regenerate_chain")
    /\ Loaded.content_core # Nil
    /\ obs'.calls = <<"producer">> \/ SuspendedWith(state', "field_clarification")

(* C15: an advance in core_production works on the first generating field   *)
(* in document order if there is one, otherwise on the first pending       *)
(* field, and never on a completed or failed field.                        *)
C15_NextFieldSelection ==
    [][FieldSelected =>
          /\ HasStatus(SelectionCore, "generating") \/ HasStatus(SelectionCore, "pending")
          /\ state'.current_field = FieldAt(SelectionCore, ExpectedField(SelectionCore)).id
          /\ FieldAt(SelectionCore, CalledField(state')).status \in {"generating", "pending"}]_vars

(* a regenerate of the second field while the first one is pending: the     *)
(* generating field was taken before the pending one                       *)
C15_Witness == obs.op = "regenerate" /\ obs.calls = <<"producer">> /\ obs.target = <<1, 2>> /\ state.current_field = <<"section_field", 2>> /\ FieldAt(state.content_core[1], <<1, 1>>).status = "pending"

(* the selected field's schema entry declares a clarification prompt and   *)
(* the field holds no answer                                               *)
GateClosed(s) ==
    LET F == FieldAt(s.content_core[1], CalledField(s))
        field_def == schema_get_field(F.name)
    IN (IF field_def = Nil THEN FALSE ELSE field_def[1].clarification_prompt) /\ ~Truthy(F.clarification_answer)

(* the advance of this step reached the clarification gate of a field *)
GateReached ==
    /\ obs'.op \in {"advance", "respond", "continue", "generate_fields", "regenerate", "regenerate_chain"}
    /\ obs'.result # "rejected"
    /\ ~(pc.at = "idle" /\ obs'.op = "regenerate_chain")
    /\ ~(pc.at = "continue" /\ pc.iterations >= max_iterations)
    /\ obs'.calls = <<"producer">> \/ SuspendedWith(state', "field_clarification")

(* C16 as stated: an advance that reaches the gate suspends with            *)
(* field_clarification exactly when the selected field's schema entry      *)
(* declares a prompt and the field holds no answer, and never for a field  *)
(* that held a non-empty answer before.                                    *)
C16_ClarificationGate ==
    [][GateReached =>
          /\ SuspendedWith(state', "field_clarification") <=> GateClosed(state')
          /\ SuspendedWith(state', "field_clarification") => state'.current_field \notin answered]_vars

(* C16 amended: an advance that reaches the gate suspends with              *)
(* field_clarification exactly when the selected field's schema entry      *)
(* declares a prompt and the field holds no answer at that moment.         *)
C16_GateFollowsAnswer == [][GateReached => (SuspendedWith(state', "field_clarification") <=> GateClosed(state'))]_vars

(* a continue that suspends again on a field whose answer was replaced by   *)
(* an empty one                                                            *)
C16_Witness == obs.op = "continue" /\ SuspendedWith(state, "field_clarification") /\ state.current_field \in answered

(* the advance of this step suspended on the clarification gate *)
GateSuspended == GateReached /\ SuspendedWith(state', "field_clarification")

ChainField(s) == FieldAt(s.content_core[1], Head(pc.chain))

(* C18: every pass of the chain loop, whatever happened to the fields       *)
(* before it, attempts its field: unless the advance suspends on the       *)
(* clarification gate it makes the Generator call for that field, and a    *)
(* field whose call raised is failed afterwards.                           *)
C18_ChainContinuesAfterFailure ==
    [][pc.at = "chain" =>
          /\ SuspendedWith(state', "field_clarification") \/ (obs'.calls = <<"producer">> /\ state'.current_field = ChainField(state).id)
          /\ ProducerRaised => ChainField(state').status = "failed"]_vars

(* the step regenerated the field at obs'.target, or marked the fields     *)
(* after it stale on request                                               *)
StaleMarked == obs'.op \in {"regenerate", "mark_stale"} /\ obs'.result = "ok"

Stale(core, p) == FieldAt(core, p).context_stale

(* C19: after a regenerate of, or a mark-stale on, a field F every          *)
(* completed field after F in document order has context_stale = true,     *)
(* and the flag of F, of the fields before F and of the fields that are    *)
(* not completed is unchanged.                                             *)
C19_DownstreamStale ==
    [][StaleMarked =>
          LET old == Loaded.content_core[1]
              new == state'.content_core[1]
              F == obs'.target
          IN \A p \in FieldPositions(new) :
                IF Before(F, p) /\ FieldAt(new, p).status = "completed"
                THEN Stale(new, p)
                ELSE Stale(new, p) = Stale(old, p)]_vars

(* the step carried a scheme index outside 0..len(design_schemes)-1 to a   *)
(* workflow that holds design schemes                                      *)
IndexOutOfRange ==
    /\ obs'.op \in {"select_scheme", "respond"}
    /\ obs'.index # Nil
    /\ Loaded.content_core # Nil
    /\ obs'.index[1] < 0 \/ obs'.index[1] >= Loaded.content_core[1].design_schemes

(* C20: an out-of-range scheme index, given to select-scheme or as the      *)
(* answer to the scheme selection prompt, is rejected and mutates nothing: *)
(* selected_scheme_index, the field list, content_extension, current_stage *)
(* and the set of versions are unchanged.                                  *)
C20_OutOfRangeRejected ==
    [][IndexOutOfRange =>
          /\ state'.content_core # Nil
          /\ state'.content_core[1].selected_scheme_index = Loaded.content_core[1].selected_scheme_index
          /\ state'.content_core[1].fields = Loaded.content_core[1].fields
          /\ state'.content_extension = Loaded.content_extension
          /\ state'.current_stage = Loaded.current_stage
          /\ versions' = versions]_vars

(* the step is a rollback whose target is no stage name, or is not         *)
(* strictly before the current stage                                       *)
RollbackRefused ==
    /\ obs'.op = "rollback"
    /\ obs'.stage \notin Stages \/ StageIndex(obs'.stage) >= StageIndex(Loaded.current_stage)

(* C21: a rollback to a target that is no stage name or is not strictly     *)
(* before current_stage is rejected with no effect: no version is created, *)
(* no stage output is cleared, and current_stage, waiting_for_input and    *)
(* the conversation log are unchanged.                                     *)
C21_RollbackRejected ==
    [][RollbackRefused =>
          /\ obs'.result = "rejected"
          /\ versions' = versions
          /\ \A f \in Files : state'[f] = Loaded[f]
          /\ state'.current_stage = Loaded.current_stage
          /\ state'.waiting_for_input = Loaded.waiting_for_input
          /\ obs'.messages = <<>>]_vars

C21_Witness ==
    /\ obs.op = "rollback"
    /\ obs.result = "rejected"
    /\ obs.stage = state.current_stage
    /\ state.content_core # Nil
    /\ state.consumer_research # Nil

(* the step is a rollback that was carried out *)
RolledBack == obs'.op = "rollback" /\ obs'.result = "ok"

(* C22: the version a rollback creates holds the artifact of every stage    *)
(* that holds output at that moment, taken before anything is cleared, so  *)
(* every output the rollback clears can be restored from that version.     *)
C22_SnapshotBeforeClear ==
    [][RolledBack =>
          /\ versions'[version_id(now)] # Nil
          /\ \A f \in Files : Loaded[f] # Nil => versions'[version_id(now)][1].files[f] = Loaded[f]]_vars

(* the step is a restore or a delete of a version id that names no version *)
UnknownVersion ==
    /\ now' = now
    /\ obs'.op \in {"restore_version", "delete_version"}
    /\ versions[obs'.version_id] = Nil

(* C23: restoreVersion and deleteVersion with an unknown version id report  *)
(* not-found with no side effects: no safety snapshot, no change of a live *)
(* artifact, no version added or removed, and the registered workflow      *)
(* state is kept.                                                          *)
C23_UnknownVersionNotFound ==
    [][UnknownVersion =>
          /\ obs'.result = "rejected"
          /\ versions' = versions
          /\ disk' = disk
          /\ active' = active
          /\ state' = state]_vars

C23_Witness ==
    /\ obs.op = "restore_version"
    /\ obs.result = "rejected"
    /\ active
    /\ \E vid \in VersionIds : versions[vid] # Nil

(* the stages strictly after st in the order of the version manager; none  *)
(* for a string that is no stage of that order                             *)
StagesAfter(st) == {version_stage_order[j] : j \in {j \in 1..Len(version_stage_order) : \E i \in 1..(j - 1) : version_stage_order[i] = st}}

HoldsData(downstream, st) == st \in DOMAIN downstream /\ downstream[st]

(* C24: should_create_version(modifiedStage, downstream) is true exactly    *)
(* when some stage strictly after modifiedStage in the order intent,       *)
(* research, core_design, core_production, extension is marked as holding  *)
(* data; data in modifiedStage or in an earlier stage never makes it true, *)
(* and an unknown modifiedStage yields false.                              *)
C24_ShouldCreateVersion ==
    obs.op = "should_create_version" =>
       (obs.result = "true" <=> \E st \in StagesAfter(obs.stage) : HoldsData(obs.downstream, st))

C24_Witness ==
    /\ obs.op = "should_create_version"
    /\ obs.result = "false"
    /\ obs.stage = "core_design"
    /\ HoldsData(obs.downstream, "intent")
    /\ HoldsData(obs.downstream, "core_design")

(* the step is a status or inspection operation *)
Inspected == obs'.op \in {"status", "data", "outline", "list_versions", "check_version_needed"}

(* what the claim speaks of: the stage, the suspension and the status of   *)
(* every field                                                             *)
Inspectable(s) ==
    [current_stage |-> s.current_stage, waiting_for_input |-> s.waiting_for_input, input_callback |-> s.input_callback,
     statuses |-> IF s.content_core = Nil THEN <<>> ELSE [i \in 1..Len(positions(s.content_core[1])) |-> FieldAt(s.content_core[1], positions(s.content_core[1])[i]).status]]

(* C25: a status or inspection operation (status, data, outline, list       *)
(* versions, check-version-needed), called any number of times in any      *)
(* reachable state, changes neither current_stage, waiting_for_input,      *)
(* input_callback nor the status of a field: not of the registered state,  *)
(* and not of the state the files load to.                                 *)
C25_ReadsChangeNothing ==
    [][Inspected =>
          /\ active => Inspectable(state') = Inspectable(state)
          /\ active' => Inspectable(state') = Inspectable(Loaded)
          /\ Inspectable(load_state(disk')) = Inspectable(load_state(disk))]_vars

C25_Witness ==
    /\ obs.op \in {"status", "outline", "check_version_needed"}
    /\ active
    /\ state.current_stage = "core_production"
    /\ state.waiting_for_input
    /\ \E vid \in VersionIds : versions[vid] # Nil /\ versions[vid][1].trigger_action = "restore"

(* the step is an edit that discards or invalidates downstream data: an    *)
(* outline update while a field is completed, or the selection of a        *)
(* scheme, by a valid index, from a stage after core_design                *)
DestructiveEdit ==
    /\ Loaded.content_core # Nil
    /\ \/ /\ obs'.op = "update_outline"
          /\ \E p \in FieldPositions(Loaded.content_core[1]) : FieldAt(Loaded.content_core[1], p).status = "completed"
       \/ /\ obs'.op = "select_scheme"
          /\ StageIndex(Loaded.current_stage) > StageIndex("core_design")
          /\ obs'.index[1] >= 0
          /\ obs'.index[1] < Loaded.content_core[1].design_schemes

(* C26: a consistency warning never blocks: an edit that discards or        *)
(* invalidates downstream data is carried out in the same call, and is     *)
(* never refused or deferred until the caller confirms.                    *)
C26_WarningNeverBlocks == [][DestructiveEdit => obs'.result = "ok"]_vars

(* the recognized tokens of a text: the matches whose name is an alias of  *)
(* a stage                                                                 *)
Recognized(m) == m.stage_or_type \in DOMAIN STAGE_ALIASES

RecognizedTokens(text) == SelectSeq(finditer(text, 1), Recognized)

(* the blocks of a text, counted by their opening unit *)
Blocks(text) == Cardinality({i \in 1..Len(text) : text[i] = "["})

(* C27: inject_references replaces every recognized token, @alias and       *)
(* @alias.field for every alias of every stage, by a block that holds the  *)
(* live content or the not-completed placeholder; no recognized token      *)
(* remains verbatim in the returned text.                                  *)
C27_EveryTokenInjected ==
    manager.op = "inject_references" =>
       /\ RecognizedTokens(manager.result) = <<>>
       /\ Blocks(manager.result) = Len(RecognizedTokens(manager.text))

(* the tokens of a text whose name is no alias, as (name, field) pairs *)
Unrecognized(m) == ~Recognized(m)

UnknownTokens(text) == [k \in 1..Len(SelectSeq(finditer(text, 1), Unrecognized)) |-> <<SelectSeq(finditer(text, 1), Unrecognized)[k].stage_or_type, SelectSeq(finditer(text, 1), Unrecognized)[k].field>>]

(* C28: parse_references and inject_references leave every stage record    *)
(* of the context manager unchanged, and a token whose name is no known    *)
(* alias is left verbatim in the text, without an error.                   *)
C28_ResolutionReadOnly ==
    [][manager'.op \in {"parse_references", "inject_references"} =>
          /\ manager'.stages = manager.stages
          /\ manager'.op = "inject_references" => UnknownTokens(manager'.result) = UnknownTokens(manager.text)]_vars

----------------------------------------------------------------------------
(* the respond call that handed its answer to the extension stage as a     *)
(* channel name has returned                                               *)
ChannelAnswered ==
    /\ pc.at = "idle"
    /\ Loaded.current_stage = "extension"
    /\ SuspendedWith(Loaded, "add_channel")
    /\ obs'.op = "respond"
    /\ obs'.result = "ok"
    /\ obs'.channel_name # None

(* the number of channels that hold content *)
Produced(s) == IF s.content_extension = Nil THEN 0 ELSE Cardinality({i \in 1..Len(s.content_extension[1].channels) : s.content_extension[1].channels[i].content # Nil})

(* C29: in the extension stage an add_channel input other than the         *)
(* terminating sentinel produces content for at most one channel and       *)
(* suspends again with callback add_channel, and current_stage becomes     *)
(* completed only when the input is the terminating sentinel, never on an  *)
(* empty or other input                                                    *)
C29_OnlySentinelCompletes ==
    [][ChannelAnswered =>
          /\ obs'.channel_name # "done" =>
                /\ SuspendedWith(state', "add_channel")
                /\ Produced(state') <= Produced(Loaded) + 1
          /\ state'.current_stage = "completed" => obs'.channel_name = "done"]_vars

----------------------------------------------------------------------------
(* C30: every caller-side loop of advance steps performs a bounded number  *)
(* of steps per invocation and then returns, also when a stage handler     *)
(* keeps failing without suspending: no invocation of respond or continue  *)
(* is past max_iterations passes of its loop                               *)
C30_LoopsBounded == pc.at \in {"respond", "continue"} => pc.iterations <= max_iterations

----------------------------------------------------------------------------
(* the respond call that answered the scheme selection prompt with a       *)
(* number, candidate schemes existing, has returned                        *)
SchemeAnswered ==
    /\ pc.at = "idle"
    /\ SuspendedWith(Loaded, "scheme_selection")
    /\ Loaded.content_core # Nil
    /\ Loaded.content_core[1].design_schemes > 0
    /\ obs'.op = "respond"
    /\ obs'.index # Nil

(* C31: handling an input for callback scheme_selection when candidate     *)
(* schemes exist records selected_scheme_index = answer - 1, sets          *)
(* content_core.status to outline_editing and suspends again with          *)
(* callback confirm_outline; it starts no field production                 *)
C31_SelectionStopsAtOutline ==
    [][SchemeAnswered =>
          /\ obs'.result = "ok"
          /\ state'.content_core # Nil
          /\ state'.content_core[1].selected_scheme_index = obs'.index
          /\ state'.content_core[1].status = "outline_editing"
          /\ SuspendedWith(state', "confirm_outline")
          /\ obs'.calls = <<>>
          /\ \A i \in 1..Len(get_all_fields(state'.content_core[1])) : get_all_fields(state'.content_core[1])[i].status = "pending"]_vars

C31_Witness == obs.op = "respond" /\ obs.index = Some(0) /\ SuspendedWith(state, "confirm_outline") /\ state.content_core[1].selected_scheme_index = Some(0)

----------------------------------------------------------------------------
(* a clarification answer was handed in for an id that a field of the      *)
(* loaded content core carries                                             *)
ClarifiedById ==
    /\ pc.at = "idle"
    /\ obs'.op \in {"respond", "clarify"}
    /\ obs'.clarification # Nil
    /\ Loaded.content_core # Nil
    /\ \E p \in FieldPositions(Loaded.content_core[1]) : FieldAt(Loaded.content_core[1], p).id = obs'.clarification[1].field_id

(* C32: a clarification answer is stored on exactly the field identified   *)
(* by id: the field_clarification input and the clarify operation given a  *)
(* field id set clarification_answer on the field whose id matches and     *)
(* leave the clarification_answer of every other field unchanged, fields   *)
(* of other sections with the same name included                           *)
C32_AnswerOnFieldWithId ==
    [][ClarifiedById =>
          /\ state'.content_core # Nil
          /\ FieldPositions(state'.content_core[1]) = FieldPositions(Loaded.content_core[1])
          /\ \A p \in FieldPositions(Loaded.content_core[1]) :
                FieldAt(state'.content_core[1], p).clarification_answer =
                   IF FieldAt(Loaded.content_core[1], p).id = obs'.clarification[1].field_id
                   THEN obs'.clarification[1].answer
                   ELSE FieldAt(Loaded.content_core[1], p).clarification_answer]_vars

(* the answer went to the added field of the second section, and the       *)
(* field of the first section with the same name holds none                *)
C32_Witness ==
    /\ obs.clarification # Nil
    /\ obs.clarification[1] = [field_id |-> <<"added", 1>>, answer |-> "1"]
    /\ state.content_core # Nil
    /\ \E p, q \in FieldPositions(state.content_core[1]) :
          /\ p[1] # q[1]
          /\ FieldAt(state.content_core[1], p).name = FieldAt(state.content_core[1], q).name
          /\ FieldAt(state.content_core[1], p).id = <<"added", 1>>
          /\ FieldAt(state.content_core[1], p).clarification_answer = "1"
          /\ FieldAt(state.content_core[1], q).clarification_answer = None

----------------------------------------------------------------------------
OutlineUpdated == pc.at = "idle" /\ obs'.op = "update_outline" /\ obs'.result = "ok"

(* the fields of the sections of a content core that carry an id *)
WithId(core, id) == {q \in SectionPositions(core) : FieldAt(core, q).id = id}

(* C33: updating the outline preserves generated work: every field whose   *)
(* id exists before and in the request has the same status, content and    *)
(* clarification_answer after update_outline, and only the fields with new *)
(* ids start as pending with no content                                    *)
C33_OutlineUpdateKeepsWork ==
    [][OutlineUpdated =>
          \A p \in SectionPositions(state'.content_core[1]) :
             LET f == FieldAt(state'.content_core[1], p)
                 before == WithId(Loaded.content_core[1], f.id)
             IN IF before # {}
                THEN \A q \in before :
                        /\ f.status = FieldAt(Loaded.content_core[1], q).status
                        /\ f.content = FieldAt(Loaded.content_core[1], q).content
                        /\ f.clarification_answer = FieldAt(Loaded.content_core[1], q).clarification_answer
                ELSE f.status = "pending" /\ f.content = Nil /\ f.clarification_answer = None]_vars

(* an update moved a completed field that holds content and an answer, and *)
(* added a field                                                           *)
C33_Witness ==
    /\ obs.op = "update_outline"
    /\ obs.result = "ok"
    /\ \E p, q \in SectionPositions(state.content_core[1]) :
          /\ FieldAt(state.content_core[1], p).id = <<"section_field", 1>>
          /\ FieldAt(state.content_core[1], p).status = "completed"
          /\ FieldAt(state.content_core[1], p).content # Nil
          /\ Truthy(FieldAt(state.content_core[1], p).clarification_answer)
          /\ p = <<1, 2>>
          /\ FieldAt(state.content_core[1], q).id = <<"added", 1>>
          /\ FieldAt(state.content_core[1], q).status = "pending"

----------------------------------------------------------------------------
(* a step that is one run_stage call on the loaded state *)
Advanced == pc.at # "new" /\ obs'.op \in {"advance", "respond", "continue"} /\ obs'.result # "rejected"

(* C34: every change of current_stage made by an advance (run_stage) call  *)
(* moves it to the immediate successor in stage_order, never backward and  *)
(* never past a stage, from every reachable state, those left by a         *)
(* rollback included                                                       *)
C34_StageMovesToSuccessor ==
    [][Advanced =>
          \/ state'.current_stage = Loaded.current_stage
          \/ StageIndex(state'.current_stage) = StageIndex(Loaded.current_stage) + 1]_vars

----------------------------------------------------------------------------
(* the in-memory state is discarded right after a successful rollback *)
DiscardedAfterRollback == obs.op = "rollback" /\ obs.result = "ok" /\ active /\ ~active'

(* no output of a stage strictly after st is held *)
NoOutputAfter(s, st) ==
    /\ StageIndex(st) < StageIndex("research") => s.consumer_research = Nil
    /\ StageIndex(st) < StageIndex("core_design") => s.content_core = Nil
    /\ StageIndex(st) < StageIndex("core_production") => (s.content_core = Nil \/ s.content_core[1].selected_scheme_index = Nil)
    /\ StageIndex(st) < StageIndex("extension") => s.content_extension = Nil

(* C35: rollback survives rehydration: after a successful rollback to      *)
(* stage S, the state rebuilt from the persisted files has current_stage   *)
(* S and no output of any stage strictly after S                           *)
C35_RollbackSurvivesReload ==
    [][DiscardedAfterRollback =>
          /\ load_state(disk').current_stage = obs.stage
          /\ NoOutputAfter(load_state(disk'), obs.stage)]_vars

----------------------------------------------------------------------------
(* C36: the clarification bound holds across rehydration: between two      *)
(* successful intent extractions the number of suspensions with callback   *)
(* intent_clarification never exceeds max_clarifications, also when the    *)
(* in-memory state is discarded and rebuilt from the files between cycles  *)
C36_BoundAcrossReload == cycles <= max_clarifications

----------------------------------------------------------------------------
(* one run_stage call of respond_to_workflow on a state in core_production *)
AdvancedInProduction ==
    /\ pc.at \in {"idle", "respond"}
    /\ obs'.op = "respond"
    /\ obs'.result # "rejected"
    /\ Loaded.current_stage = "core_production"
    /\ Loaded.content_core # Nil

Unfinished(core) == {i \in 1..Len(get_all_fields(core)) : get_all_fields(core)[i].status \in {"pending", "generating"}}

(* C37: advance moves current_stage from core_production to extension      *)
(* exactly when no field has status pending or generating: failed fields   *)
(* do not block the transition, content_core.status becomes completed with *)
(* it, and no transition happens while a field is pending or generating    *)
C37_ExtensionWhenNoFieldLeft ==
    [][AdvancedInProduction =>
          /\ state'.current_stage \in {"core_production", "extension"}
          /\ state'.current_stage = "extension" <=> Unfinished(Loaded.content_core[1]) = {}
          /\ state'.current_stage = "extension" => state'.content_core[1].status = "completed"]_vars

(* the stage moved on with a failed field in the content core *)
C37_Witness ==
    /\ obs.op = "respond"
    /\ state.current_stage = "extension"
    /\ state.content_extension = Nil
    /\ state.content_core # Nil
    /\ state.content_core[1].status = "completed"
    /\ \E i \in 1..Len(get_all_fields(state.content_core[1])) : get_all_fields(state.content_core[1])[i].status = "failed"

----------------------------------------------------------------------------
Reordered == pc.at = "idle" /\ obs'.op \in {"reorder_sections", "reorder_fields"}

(* the same items, each as often as before, every attribute unchanged *)
IsPermutation(new, old) ==
    /\ Len(new) = Len(old)
    /\ \A i \in 1..Len(old) : Cardinality({j \in 1..Len(new) : new[j] = old[i]}) = Cardinality({j \in 1..Len(old) : old[j] = old[i]})

(* C38: a successful section or field reorder yields a list that is a      *)
(* permutation of the previous one (the same ids, each exactly once, every *)
(* field's content and status unchanged), and a request whose id list is   *)
(* not a permutation of the existing ids, one that repeats an id included, *)
(* is rejected with no change                                              *)
C38_ReorderIsPermutation ==
    [][Reordered =>
          IF obs'.result = "ok"
          THEN IF obs'.op = "reorder_sections"
               THEN IsPermutation(state'.content_core[1].sections, Loaded.content_core[1].sections)
               ELSE /\ Len(state'.content_core[1].sections) = Len(Loaded.content_core[1].sections)
                    /\ \A k \in 1..Len(Loaded.content_core[1].sections) :
                          IF k = obs'.target[1]
                          THEN IsPermutation(state'.content_core[1].sections[k].fields, Loaded.content_core[1].sections[k].fields)
                          ELSE state'.content_core[1].sections[k] = Loaded.content_core[1].sections[k]
          ELSE state' = Loaded /\ disk' = LoadedDisk]_vars

----------------------------------------------------------------------------
(* a restore of an existing version has returned *)
Restored == pc.at = "idle" /\ obs'.op = "restore_version" /\ obs'.result = "ok" /\ now' = now /\ versions[obs'.version_id] # Nil

(* C39: restore_version changes only the live artifacts of the stages      *)
(* whose files the chosen snapshot contains: the project record and the    *)
(* live artifacts of the stages absent from the snapshot are unchanged, so *)
(* the stage the workflow resumes at after a restore is the one it had     *)
(* before the restore                                                      *)
C39_RestoreKeepsProjectRecord ==
    [][Restored =>
          /\ disk'.project_status = disk.project_status
          /\ \A f \in Files : versions[obs'.version_id][1].files[f] = Nil => disk'.files[f] = disk.files[f]
          /\ load_state(disk').current_stage = Loaded.current_stage]_vars

----------------------------------------------------------------------------
(* Requests for one workflow *)

NextRequests == StartWorkflow \/ Respond \/ RespondStep \/ Continue \/ ContinueStep \/ GenerateFields \/ RollbackTo("core_design")

SpecRequests == Init /\ [][NextRequests]_vars

(* an operation is between two passes of its loop: it has changed the      *)
(* registered state and has not saved it                                   *)
InProgress == pc.at \in {"respond", "continue", "chain"}

====
